---------------------------- MODULE Spec2Model ----------------------------
(***************************************************************************)
(* Verification model of the nand2tetris toolchain:                        *)
(*   projects/07/vmtranslator  (VM -> Hack assembly)                       *)
(*   projects/06/assembler     (Hack assembly -> 16-bit words)             *)
(*   projects/10/jack_analyzer (Jack -> VM)                                *)
(*                                                                         *)
(* Text is modelled as sequences of one-character strings, so that         *)
(* formatting (format!("{}.{}", stem, i)) and parsing (parse::<i16>) are   *)
(* real conversions.  An assembly line is modelled by the Instruction the  *)
(* assembler's line_to_instruction makes of it.                            *)
(***************************************************************************)
EXTENDS Integers, Sequences, FiniteSets, TLC

\* ------------------------------------------------------------------ bounds
\* The machine model keeps RAM 0..LowTop (registers, temp, static variables)
\* and StackBase..RamTop (stack and segments).
LowTop == 20
RamTop == 282
\* Commands translated, and translator instances created, in the
\* specification of the translator alone (SpecUnit).
MaxCmds == 3
MaxInsts == 2
\* Largest static index compared across file stems.
MaxIdx == 15
\* Longest assembly program drawn from AsmItems in the specification of the
\* assembler alone (SpecAsm).
MaxAsmLen == 4
\* Instructions the assembler's first two loops take in one step of the model.
Chunk == 16

\* ------------------------------------------------------------------- text
Digits == <<"0", "1", "2", "3", "4", "5", "6", "7", "8", "9">>

IsDigit(c) == \E i \in 1..10 : Digits[i] = c

DigitVal(c) == (CHOOSE i \in 1..10 : Digits[i] = c) - 1

RECURSIVE FmtNat(_)
FmtNat(n) == IF n < 10 THEN <<Digits[n + 1]>>
             ELSE FmtNat(n \div 10) \o <<Digits[(n % 10) + 1]>>

\* Display of an i16, as format!("{}", n) writes it.
FmtI16(n) == IF n < 0 THEN <<"-">> \o FmtNat(-n) ELSE FmtNat(n)

RECURSIVE DigitsVal(_, _)
DigitsVal(s, acc) == IF s = <<>> THEN acc
                     ELSE DigitsVal(Tail(s), 10 * acc + DigitVal(Head(s)))

AllDigits(s) == s # <<>> /\ \A i \in 1..Len(s) : IsDigit(s[i])

\* str::parse::<i16>: an optional sign, then digits, the value within i16.
ParseI16(s) ==
    LET neg  == s # <<>> /\ Head(s) = "-"
        sign == s # <<>> /\ Head(s) \in {"-", "+"}
        body == IF sign THEN Tail(s) ELSE s
        val  == IF neg THEN -DigitsVal(body, 0) ELSE DigitsVal(body, 0)
    IN IF AllDigits(body) /\ val >= -32768 /\ val <= 32767
       THEN [ok |-> TRUE, val |-> val]
       ELSE [ok |-> FALSE, val |-> 0]

Lower == <<"a","b","c","d","e","f","g","h","i","j","k","l","m",
           "n","o","p","q","r","s","t","u","v","w","x","y","z">>
Upper == <<"A","B","C","D","E","F","G","H","I","J","K","L","M",
           "N","O","P","Q","R","S","T","U","V","W","X","Y","Z">>

UpperChar(c) == IF \E i \in 1..26 : Lower[i] = c
                THEN Upper[CHOOSE i \in 1..26 : Lower[i] = c]
                ELSE c

\* str::to_uppercase
ToUppercase(s) == [i \in 1..Len(s) |-> UpperChar(s[i])]

EndsWith(s, suf) ==
    Len(s) >= Len(suf) /\ SubSeq(s, Len(s) - Len(suf) + 1, Len(s)) = suf

\* Path::file_name: the text after the last '/'.
RECURSIVE FileName(_)
FileName(p) == IF \E i \in 1..Len(p) : p[i] = "/"
               THEN FileName(SubSeq(p, (CHOOSE i \in 1..Len(p) : p[i] = "/") + 1, Len(p)))
               ELSE p

DotVm == <<".", "v", "m">>

\* ------------------------------------------------------- assembly lines
\* Instruction (assembler parser.rs): what line_to_instruction makes of a
\* line.  dest and jump "" stand for None.  A "//" line is kept as a Comment
\* line, which the assembler's Parser skips.
NoSym == <<>>
AInstr(sym) == [t |-> "A", sym |-> sym, dest |-> "", comp |-> "", jump |-> ""]
LInstr(sym) == [t |-> "L", sym |-> sym, dest |-> "", comp |-> "", jump |-> ""]
CInstr(dest, comp, jump) ==
    [t |-> "C", sym |-> NoSym, dest |-> dest, comp |-> comp, jump |-> jump]
CommentLine == [t |-> "Comment", sym |-> NoSym, dest |-> "", comp |-> "", jump |-> ""]

ANum(n) == AInstr(FmtI16(n))

S_SP == <<"S", "P">>
S_LCL == <<"L", "C", "L">>
S_ARG == <<"A", "R", "G">>
S_THIS == <<"T", "H", "I", "S">>
S_THAT == <<"T", "H", "A", "T">>
S_R13 == <<"R", "1", "3">>
S_END == <<"E", "N", "D">>
S_endframe == <<"e", "n", "d", "f", "r", "a", "m", "e">>
S_retaddr == <<"r", "e", "t", "a", "d", "d", "r">>
S_SysInit == <<"S", "y", "s", ".", "i", "n", "i", "t">>
S_SysRet == <<"S", "y", "s", "$", "r", "e", "t">>


\* ------------------------------------------------------------ VM commands
\* Command (vmtranslator parser.rs), as one record shape.
Push(seg, v) == [kind |-> "Push", seg |-> seg, op |-> "", name |-> NoSym, n |-> v]
Pop(seg, v) == [kind |-> "Pop", seg |-> seg, op |-> "", name |-> NoSym, n |-> v]
Arithmetic(op) == [kind |-> "Arithmetic", seg |-> "", op |-> op, name |-> NoSym, n |-> 0]
Label(l) == [kind |-> "Label", seg |-> "", op |-> "", name |-> l, n |-> 0]
GoTo(l) == [kind |-> "GoTo", seg |-> "", op |-> "", name |-> l, n |-> 0]
IfGoTo(l) == [kind |-> "IfGoTo", seg |-> "", op |-> "", name |-> l, n |-> 0]
Function(f, k) == [kind |-> "Function", seg |-> "", op |-> "", name |-> f, n |-> k]
Call(f, k) == [kind |-> "Call", seg |-> "", op |-> "", name |-> f, n |-> k]
Return == [kind |-> "Return", seg |-> "", op |-> "", name |-> NoSym, n |-> 0]

\* ---------------------------------------------- translator: platform/hack.rs
STACK_POP == << AInstr(S_SP), CInstr("AM", "M-1", ""), CInstr("D", "M", "") >>

STACK_PUSH == << AInstr(S_SP), CInstr("A", "M", ""), CInstr("M", "D", ""),
                 AInstr(S_SP), CInstr("M", "M+1", "") >>

load_constant(value) == << ANum(value), CInstr("D", "A", "") >>

load_temp(index) ==
    << ANum(5), CInstr("D", "A", ""), ANum(index), CInstr("A", "D+A", ""),
       CInstr("D", "M", "") >>

load_segment(segment_id, index) ==
    << AInstr(segment_id), CInstr("D", "M", ""), ANum(index),
       CInstr("A", "D+A", ""), CInstr("D", "M", "") >>

load_static(variable) == << AInstr(variable), CInstr("D", "M", "") >>

\* Pointer index other than 0 or 1: panic!, modelled as no output.
load_pointer(index) ==
    IF index = 0 THEN << AInstr(S_THIS), CInstr("D", "M", "") >>
    ELSE IF index = 1 THEN << AInstr(S_THAT), CInstr("D", "M", "") >>
    ELSE << >>

locate_segment(segment_id, index) ==
    << AInstr(segment_id), CInstr("D", "M", ""), ANum(index), CInstr("D", "D+A", "") >>

locate_temp(index) ==
    << ANum(5), CInstr("D", "A", ""), ANum(index), CInstr("D", "D+A", "") >>

assign_variable(variable) == << AInstr(variable), CInstr("M", "D", "") >>

push_contant(value) == load_constant(value) \o STACK_PUSH
push_segment(segment_base, index) == load_segment(segment_base, index) \o STACK_PUSH
push_temp(index) == load_temp(index) \o STACK_PUSH
push_static(variable) == load_static(variable) \o STACK_PUSH
push_pointer(value) == load_pointer(value) \o STACK_PUSH

pop_pointer(value) ==
    IF value = 0 THEN STACK_POP \o assign_variable(S_THIS)
    ELSE IF value = 1 THEN STACK_POP \o assign_variable(S_THAT)
    ELSE << >>

pop_temp(index) ==
    locate_temp(index) \o << AInstr(S_R13), CInstr("M", "D", "") >> \o STACK_POP
    \o << AInstr(S_R13), CInstr("A", "M", ""), CInstr("M", "D", "") >>

\* pop_segment popping the stack before it computes the destination address.
pop_segment_PopFirst(segment_base, index) ==
    STACK_POP \o locate_segment(segment_base, index)
    \o << AInstr(S_R13), CInstr("M", "D", "") >>
    \o << AInstr(S_R13), CInstr("A", "M", ""), CInstr("M", "D", "") >>

pop_segment(segment_base, index) ==
    locate_segment(segment_base, index) \o << AInstr(S_R13), CInstr("M", "D", "") >>
    \o STACK_POP \o << AInstr(S_R13), CInstr("A", "M", ""), CInstr("M", "D", "") >>

pop_static(variable) == STACK_POP \o assign_variable(variable)

\* comp_x_and_y storing the result over y, the top of the stack, instead of x.
comp_x_and_y_OverTop(expression) ==
    << AInstr(S_SP), CInstr("A", "M-1", ""), CInstr("D", "M", ""),
       CInstr("A", "A-1", ""), CInstr("D", expression, ""),
       AInstr(S_SP), CInstr("A", "M-1", ""),
       CInstr("M", "D", ""), AInstr(S_SP), CInstr("M", "M-1", "") >>

comp_x_and_y(expression) ==
    << AInstr(S_SP), CInstr("A", "M-1", ""), CInstr("D", "M", ""),
       CInstr("A", "A-1", ""), CInstr("D", expression, ""),
       AInstr(S_SP), CInstr("A", "M-1", ""), CInstr("A", "A-1", ""),
       CInstr("M", "D", ""), AInstr(S_SP), CInstr("M", "M-1", "") >>

comp_y(expression) ==
    << AInstr(S_SP), CInstr("A", "M-1", ""), CInstr("D", expression, ""),
       AInstr(S_SP), CInstr("A", "M-1", ""), CInstr("M", "D", "") >>

S_fin == <<"_", "E", "N", "D">>

\* comp_logic computing y - x instead of x - y.
comp_logic_Reversed(counter, label_prefix, jump) ==
    LET label == label_prefix \o <<"_">> \o FmtI16(counter)
    IN << AInstr(S_SP), CInstr("M", "M-1", ""), CInstr("A", "M", ""),
          CInstr("D", "M", ""), CInstr("A", "A-1", ""), CInstr("D", "D-M", ""),
          AInstr(label), CInstr("", "D", jump),
          AInstr(S_SP), CInstr("A", "M-1", ""), CInstr("M", "0", ""),
          AInstr(label \o S_fin), CInstr("", "0", "JMP"),
          LInstr(label),
          AInstr(S_SP), CInstr("A", "M-1", ""), CInstr("M", "-1", ""),
          LInstr(label \o S_fin) >>

comp_logic(counter, label_prefix, jump) ==
    LET label == label_prefix \o <<"_">> \o FmtI16(counter)
    IN << AInstr(S_SP), CInstr("M", "M-1", ""), CInstr("A", "M", ""),
          CInstr("D", "M", ""), CInstr("A", "A-1", ""), CInstr("D", "M-D", ""),
          AInstr(label), CInstr("", "D", jump),
          AInstr(S_SP), CInstr("A", "M-1", ""), CInstr("M", "0", ""),
          AInstr(label \o S_fin), CInstr("", "0", "JMP"),
          LInstr(label),
          AInstr(S_SP), CInstr("A", "M-1", ""), CInstr("M", "-1", ""),
          LInstr(label \o S_fin) >>

PushD == << AInstr(S_SP), CInstr("A", "M", ""), CInstr("M", "D", ""),
            AInstr(S_SP), CInstr("M", "M+1", "") >>

\* translate_call with ARG = SP - 4 - n_args.
translate_call_ArgOffByOne(return_label, func_label, n_args) ==
    << AInstr(return_label), CInstr("D", "A", "") >> \o PushD
    \o << AInstr(S_LCL), CInstr("D", "M", "") >> \o PushD
    \o << AInstr(S_ARG), CInstr("D", "M", "") >> \o PushD
    \o << AInstr(S_THIS), CInstr("D", "M", "") >> \o PushD
    \o << AInstr(S_THAT), CInstr("D", "M", "") >> \o PushD
    \o << AInstr(S_SP), CInstr("D", "M", ""), ANum(4), CInstr("D", "D-A", ""),
          ANum(n_args), CInstr("D", "D-A", ""), AInstr(S_ARG), CInstr("M", "D", ""),
          AInstr(S_SP), CInstr("D", "M", ""), AInstr(S_LCL), CInstr("M", "D", ""),
          AInstr(func_label), CInstr("", "0", "JMP"),
          LInstr(return_label) >>

\* translate_call pushing THAT before THIS.
translate_call_ThatFirst(return_label, func_label, n_args) ==
    << AInstr(return_label), CInstr("D", "A", "") >> \o PushD
    \o << AInstr(S_LCL), CInstr("D", "M", "") >> \o PushD
    \o << AInstr(S_ARG), CInstr("D", "M", "") >> \o PushD
    \o << AInstr(S_THAT), CInstr("D", "M", "") >> \o PushD
    \o << AInstr(S_THIS), CInstr("D", "M", "") >> \o PushD
    \o << AInstr(S_SP), CInstr("D", "M", ""), ANum(5), CInstr("D", "D-A", ""),
          ANum(n_args), CInstr("D", "D-A", ""), AInstr(S_ARG), CInstr("M", "D", ""),
          AInstr(S_SP), CInstr("D", "M", ""), AInstr(S_LCL), CInstr("M", "D", ""),
          AInstr(func_label), CInstr("", "0", "JMP"),
          LInstr(return_label) >>

translate_call(return_label, func_label, n_args) ==
    << AInstr(return_label), CInstr("D", "A", "") >> \o PushD
    \o << AInstr(S_LCL), CInstr("D", "M", "") >> \o PushD
    \o << AInstr(S_ARG), CInstr("D", "M", "") >> \o PushD
    \o << AInstr(S_THIS), CInstr("D", "M", "") >> \o PushD
    \o << AInstr(S_THAT), CInstr("D", "M", "") >> \o PushD
    \o << AInstr(S_SP), CInstr("D", "M", ""), ANum(5), CInstr("D", "D-A", ""),
          ANum(n_args), CInstr("D", "D-A", ""), AInstr(S_ARG), CInstr("M", "D", ""),
          AInstr(S_SP), CInstr("D", "M", ""), AInstr(S_LCL), CInstr("M", "D", ""),
          AInstr(func_label), CInstr("", "0", "JMP"),
          LInstr(return_label) >>

RECURSIVE ZeroPushes(_)
ZeroPushes(k) ==
    IF k <= 0 THEN << >>
    ELSE << AInstr(S_SP), CInstr("A", "M", ""), CInstr("M", "0", ""),
            AInstr(S_SP), CInstr("M", "M+1", "") >> \o ZeroPushes(k - 1)

\* translate_function with one push fewer than n_vars.
translate_function_OneFewer(func_label, n_vars) ==
    << LInstr(func_label) >> \o ZeroPushes(n_vars - 1)

translate_function(func_label, n_vars) == << LInstr(func_label) >> \o ZeroPushes(n_vars)

RestoreFromFrame(reg) ==
    << AInstr(S_endframe), CInstr("AM", "M-1", ""), CInstr("D", "M", ""),
       AInstr(reg), CInstr("M", "D", "") >>

\* translate_return reading the return address only when it jumps, after the
\* return value has been stored at RAM[ARG].
translate_return_LateRetAddr ==
    << AInstr(S_LCL), CInstr("D", "M", ""), AInstr(S_endframe), CInstr("M", "D", ""),
       ANum(5), CInstr("D", "D-A", ""),
       AInstr(S_retaddr), CInstr("M", "D", ""),
       AInstr(S_SP), CInstr("AM", "M-1", ""), CInstr("D", "M", ""),
       AInstr(S_ARG), CInstr("A", "M", ""), CInstr("M", "D", ""),
       AInstr(S_ARG), CInstr("D", "M+1", ""), AInstr(S_SP), CInstr("M", "D", "") >>
    \o RestoreFromFrame(S_THAT) \o RestoreFromFrame(S_THIS)
    \o RestoreFromFrame(S_ARG) \o RestoreFromFrame(S_LCL)
    \o << AInstr(S_retaddr), CInstr("A", "M", ""), CInstr("A", "M", ""),
          CInstr("", "0", "JMP") >>

translate_return ==
    << AInstr(S_LCL), CInstr("D", "M", ""), AInstr(S_endframe), CInstr("M", "D", ""),
       ANum(5), CInstr("A", "D-A", ""), CInstr("D", "M", ""),
       AInstr(S_retaddr), CInstr("M", "D", ""),
       AInstr(S_SP), CInstr("AM", "M-1", ""), CInstr("D", "M", ""),
       AInstr(S_ARG), CInstr("A", "M", ""), CInstr("M", "D", ""),
       AInstr(S_ARG), CInstr("D", "M+1", ""), AInstr(S_SP), CInstr("M", "D", "") >>
    \o RestoreFromFrame(S_THAT) \o RestoreFromFrame(S_THIS)
    \o RestoreFromFrame(S_ARG) \o RestoreFromFrame(S_LCL)
    \o << AInstr(S_retaddr), CInstr("A", "M", ""), CInstr("", "0", "JMP") >>


\* -------------------------------------------------- Hack (translator state)
S_LABEL == <<"_", "L", "A", "B", "E", "L">>

\* Hack::new: the file name without its directories and its ".vm".
HackNew(filename) ==
    LET static_identifier == SubSeq(FileName(filename), 1, Len(FileName(filename)) - 3)
    IN [static_identifier |-> static_identifier,
        label_prefix |-> ToUppercase(static_identifier) \o S_LABEL,
        counter |-> 0,
        func_counter |-> 0]

\* The static symbol without the "." between stem and index.
StaticVariable_NoDot(hack, value) == hack.static_identifier \o FmtI16(value)

StaticVariable(hack, value) == hack.static_identifier \o <<".">> \o FmtI16(value)

\* The return label numbered by the comparison counter.
ReturnLabel_SharedCounter(hack) ==
    hack.static_identifier \o <<"$", "r", "e", "t", ".">> \o FmtI16(hack.counter)

ReturnLabel(hack) ==
    hack.static_identifier \o <<"$", "r", "e", "t", ".">> \o FmtI16(hack.func_counter)

SegmentBase(seg) ==
    CASE seg = "local" -> S_LCL
      [] seg = "argument" -> S_ARG
      [] seg = "this" -> S_THIS
      [] seg = "that" -> S_THAT

TranslatePush(hack, seg, value) ==
    CASE seg = "constant" -> push_contant(value)
      [] seg \in {"local", "argument", "this", "that"} -> push_segment(SegmentBase(seg), value)
      [] seg = "static" -> push_static(StaticVariable(hack, value))
      [] seg = "temp" -> push_temp(value)
      [] seg = "pointer" -> push_pointer(value)

TranslatePop(hack, seg, value) ==
    CASE seg \in {"local", "argument", "this", "that"} -> pop_segment(SegmentBase(seg), value)
      [] seg = "static" -> pop_static(StaticVariable(hack, value))
      [] seg = "temp" -> pop_temp(value)
      [] seg = "pointer" -> pop_pointer(value)

TranslateArithmetic(hack, op) ==
    CASE op = "add" -> comp_x_and_y("M+D")
      [] op = "sub" -> comp_x_and_y("M-D")
      [] op = "and" -> comp_x_and_y("D&M")
      [] op = "or" -> comp_x_and_y("D|M")
      [] op = "neg" -> comp_y("-M")
      [] op = "not" -> comp_y("!M")
      [] op = "eq" -> comp_logic(hack.counter, hack.label_prefix, "JEQ")
      [] op = "lt" -> comp_logic(hack.counter, hack.label_prefix, "JLT")
      [] op = "gt" -> comp_logic(hack.counter, hack.label_prefix, "JGT")

\* Hack::translate returns None for pop constant.
TranslateIsSome(command) == ~(command.kind = "Pop" /\ command.seg = "constant")

\* The assembly Hack::translate returns for a command (when it is Some).
TranslateAsm(hack, command) ==
    CASE command.kind = "Push" -> TranslatePush(hack, command.seg, command.n)
      [] command.kind = "Pop" -> TranslatePop(hack, command.seg, command.n)
      [] command.kind = "Arithmetic" -> TranslateArithmetic(hack, command.op)
      [] command.kind = "Label" -> << LInstr(command.name) >>
      [] command.kind = "GoTo" -> << AInstr(command.name), CInstr("", "0", "JMP") >>
      [] command.kind = "IfGoTo" ->
            << AInstr(S_SP), CInstr("A", "M-1", ""), CInstr("D", "M", ""),
               AInstr(S_SP), CInstr("M", "M-1", ""),
               AInstr(command.name), CInstr("", "D", "JNE") >>
      [] command.kind = "Call" -> translate_call(ReturnLabel(hack), command.name, command.n)
      [] command.kind = "Function" -> translate_function(command.name, command.n)
      [] command.kind = "Return" -> translate_return

\* The translator after Hack::translate: the counters it has advanced.
TranslateState(hack, command) ==
    IF command.kind = "Arithmetic" /\ command.op \in {"eq", "lt", "gt"}
    THEN [hack EXCEPT !.counter = @ + 1]
    ELSE IF command.kind = "Call"
    THEN [hack EXCEPT !.func_counter = @ + 1]
    ELSE hack

bootstrap ==
    << ANum(256), CInstr("D", "A", ""), AInstr(S_SP), CInstr("M", "D", "") >>
    \o translate_call(S_SysRet, S_SysInit, 0)

end == << LInstr(S_END), AInstr(S_END), CInstr("", "0", "JMP") >>


\* ------------------------------------------------------ 16-bit arithmetic
Pow2(k) == 2 ^ k
\* An i16 as its 16-bit pattern (0..65535) and back.
ToU16(v) == v % 65536
ToI16(u) == IF u % 65536 >= 32768 THEN (u % 65536) - 65536 ELSE u % 65536
Bit(u, k) == (u \div Pow2(k)) % 2

RECURSIVE BitOrU(_, _, _)
BitOrU(x, y, k) ==
    IF k < 0 THEN 0
    ELSE (IF Bit(x, k) = 1 \/ Bit(y, k) = 1 THEN Pow2(k) ELSE 0) + BitOrU(x, y, k - 1)

RECURSIVE BitAndU(_, _, _)
BitAndU(x, y, k) ==
    IF k < 0 THEN 0
    ELSE (IF Bit(x, k) = 1 /\ Bit(y, k) = 1 THEN Pow2(k) ELSE 0) + BitAndU(x, y, k - 1)

\* Rust's | and << on i16.
OrI16(x, y) == ToI16(BitOrU(ToU16(x), ToU16(y), 15))
ShlI16(x, k) == ToI16(ToU16(x) * Pow2(k))

\* format!("{:016b}", v): the sixteen characters of a word, bit 15 first.
Binary16(v) == [i \in 1..16 |-> IF Bit(ToU16(v), 16 - i) = 1 THEN "1" ELSE "0"]

\* ------------------------------------------------ assembler: parser.rs
CompTable ==
    [c \in {"0", "1", "-1", "D", "A", "M", "!D", "!A", "!M", "-D", "-A", "-M",
            "D+1", "1+D", "A+1", "1+A", "M+1", "1+M", "D-1", "A-1", "M-1",
            "D+A", "A+D", "D+M", "M+D", "D-A", "D-M", "A-D", "M-D",
            "D&A", "A&D", "D&M", "M&D", "D|A", "A|D", "D|M", "M|D"} |->
       CASE c = "0" -> 42      \* 0b0101010
         [] c = "1" -> 63      \* 0b0111111
         [] c = "-1" -> 58     \* 0b0111010
         [] c = "D" -> 12      \* 0b0001100
         [] c = "A" -> 48      \* 0b0110000
         [] c = "M" -> 112     \* 0b1110000
         [] c = "!D" -> 13     \* 0b0001101
         [] c = "!A" -> 49     \* 0b0110001
         [] c = "!M" -> 113    \* 0b1110001
         [] c = "-D" -> 15     \* 0b0001111
         [] c = "-A" -> 51     \* 0b0110011
         [] c = "-M" -> 115    \* 0b1110011
         [] c \in {"D+1", "1+D"} -> 31    \* 0b0011111
         [] c \in {"A+1", "1+A"} -> 55    \* 0b0110111
         [] c \in {"M+1", "1+M"} -> 119   \* 0b1110111
         [] c = "D-1" -> 14    \* 0b0001110
         [] c = "A-1" -> 50    \* 0b0110010
         [] c = "M-1" -> 114   \* 0b1110010
         [] c \in {"D+A", "A+D"} -> 2     \* 0b0000010
         [] c \in {"D+M", "M+D"} -> 66    \* 0b1000010
         [] c = "D-A" -> 19    \* 0b0010011
         [] c = "D-M" -> 83    \* 0b1010011
         [] c = "A-D" -> 7     \* 0b0000111
         [] c = "M-D" -> 71    \* 0b1000111
         [] c \in {"D&A", "A&D"} -> 0     \* 0b0000000
         [] c \in {"D&M", "M&D"} -> 64    \* 0b1000000
         [] c \in {"D|A", "A|D"} -> 21    \* 0b0010101
         [] c \in {"D|M", "M|D"} -> 85]   \* 0b1010101

DestTable ==
    [d \in {"M", "D", "DM", "MD", "A", "AM", "MA", "AD", "DA",
            "ADM", "AMD", "DAM", "DMA", "MAD", "MDA"} |->
       CASE d = "M" -> 1
         [] d = "D" -> 2
         [] d \in {"DM", "MD"} -> 3
         [] d = "A" -> 4
         [] d \in {"AM", "MA"} -> 5
         [] d \in {"AD", "DA"} -> 6
         [] d \in {"ADM", "AMD", "DAM", "DMA", "MAD", "MDA"} -> 7]

JumpTable ==
    [j \in {"JGT", "JEQ", "JGE", "JLT", "JNE", "JLE", "JMP"} |->
       CASE j = "JGT" -> 1
         [] j = "JEQ" -> 2
         [] j = "JGE" -> 3
         [] j = "JLT" -> 4
         [] j = "JNE" -> 5
         [] j = "JLE" -> 6
         [] j = "JMP" -> 7]

Some(v) == [kind |-> "Some", val |-> v]
None == [kind |-> "None", val |-> 0]
Panic == [kind |-> "Panic", val |-> 0]

comp_b(comp) == ShlI16(CompTable[comp], 6)
\* The dest table without the spelling "MA", which falls to "A".
dest_b_NoMA(dest) ==
    ShlI16(IF dest = "" THEN 0 ELSE IF dest = "MA" THEN 4 ELSE DestTable[dest], 3)

dest_b(dest) == ShlI16(IF dest = "" THEN 0 ELSE DestTable[dest], 3)
jump_b(jump) == IF jump = "" THEN 0 ELSE JumpTable[jump]

\* Instruction::to_decimal, for a C-instruction.
c_to_decimal(dest, comp, jump) ==
    IF comp \notin DOMAIN CompTable
       \/ (dest # "" /\ dest \notin DOMAIN DestTable)
       \/ (jump # "" /\ jump \notin DOMAIN JumpTable)
    THEN Panic
    ELSE LET opcode_b == ShlI16(7, 13)
         IN Some(OrI16(OrI16(OrI16(opcode_b, comp_b(comp)), dest_b(dest)), jump_b(jump)))

\* Instruction::to_decimal.
to_decimal(instruction, dictionary) ==
    CASE instruction.t = "A" ->
            IF ParseI16(instruction.sym).ok THEN Some(ParseI16(instruction.sym).val)
            ELSE IF instruction.sym \in DOMAIN dictionary
                 THEN Some(dictionary[instruction.sym])
                 ELSE Panic
      [] instruction.t = "L" -> None
      [] instruction.t = "C" ->
            c_to_decimal(instruction.dest, instruction.comp, instruction.jump)

\* Parser::next: the lines that are instructions (comments and blanks skipped).
Instructions(lines) == SelectSeq(lines, LAMBDA l : l.t # "Comment")

\* --------------------------------------------------- assembler: lib.rs run
Predefined ==
    LET regs == [k \in {<<"R">> \o FmtNat(n) : n \in 0..15} |->
                    (CHOOSE n \in 0..15 : k = <<"R">> \o FmtNat(n))]
    IN regs @@ (<<"S","C","R","E","E","N">> :> 16384) @@ (<<"K","B","D">> :> 24576)
            @@ (S_SP :> 0) @@ (S_LCL :> 1) @@ (S_ARG :> 2) @@ (S_THIS :> 3)
            @@ (S_THAT :> 4)

\* dictionary.entry(k).or_insert(v)
OrInsert(dictionary, k, v) ==
    IF k \in DOMAIN dictionary THEN dictionary ELSE dictionary @@ (k :> v)

\* First loop of run: labels.  st = [dictionary, counter, m_address].
LabelStep(st, instruction) ==
    IF instruction.t = "L"
    THEN [st EXCEPT !.dictionary = OrInsert(st.dictionary, instruction.sym, st.counter)]
    ELSE [st EXCEPT !.counter = @ + 1]

\* Second loop of run: variables.
VariableStep(st, instruction) ==
    IF instruction.t = "A" /\ ~ParseI16(instruction.sym).ok
       /\ instruction.sym \notin DOMAIN st.dictionary
    THEN [st EXCEPT !.m_address = @ + 1,
                    !.dictionary = st.dictionary @@ (instruction.sym :> (st.m_address + 1))]
    ELSE st

\* The memory counter starting at 16: the first variable would get 17.
AsmStart_From16 == [dictionary |-> Predefined, counter |-> 0, m_address |-> 16]

AsmStart == [dictionary |-> Predefined, counter |-> 0, m_address |-> 15]

\* The loop "for instruction in parser" over instructions lo..hi, with Op
\* its body.  (The test on counter only makes the value definite before the
\* next turn.)
RECURSIVE FoldSteps(_, _, _, _, _)
FoldSteps(Op(_, _), st, ins, lo, hi) ==
    IF lo > hi \/ st.counter < 0 THEN st
    ELSE FoldSteps(Op, Op(st, ins[lo]), ins, lo + 1, hi)

\* Third loop of run: to_decimal of every instruction, in order.
Decimals(ins, dictionary) == [i \in 1..Len(ins) |-> to_decimal(ins[i], dictionary)]

\* The lines written for a run of results, none of them a panic.
Written(results) ==
    LET kept == SelectSeq(results, LAMBDA r : r.kind = "Some")
    IN [i \in 1..Len(kept) |-> Binary16(kept[i].val)]

\* ------------------------------------------------------------ Hack machine
\* The target platform (spec.md 4.7 and glossary): a word of the .hack file
\* is an A-instruction (bit 15 = 0) or a C-instruction 111a cccccc ddd jjj,
\* executed by the Hack ALU (zx nx zy ny f no), with d = A D M and
\* j = (out < 0) (out = 0) (out > 0).
RECURSIVE FromBinaryAcc(_, _)
FromBinaryAcc(line, acc) ==
    IF line = << >> THEN acc
    ELSE FromBinaryAcc(Tail(line), 2 * acc + (IF Head(line) = "1" THEN 1 ELSE 0))

FromBinary(line) == FromBinaryAcc(line, 0)

\* The ROM loader: each line of the .hack file as a number.
LoadRom(lines) == [i \in 1..Len(lines) |-> FromBinary(lines[i])]

NotU(x) == 65535 - x

Alu(x, y, c) ==
    LET x1 == IF Bit(c, 5) = 1 THEN 0 ELSE x
        x2 == IF Bit(c, 4) = 1 THEN NotU(x1) ELSE x1
        y1 == IF Bit(c, 3) = 1 THEN 0 ELSE y
        y2 == IF Bit(c, 2) = 1 THEN NotU(y1) ELSE y1
        o1 == IF Bit(c, 1) = 1 THEN (x2 + y2) % 65536 ELSE BitAndU(x2, y2, 15)
    IN IF Bit(c, 0) = 1 THEN NotU(o1) ELSE o1

InRam(a) == (a >= 0 /\ a <= LowTop) \/ (a >= 256 /\ a <= RamTop)

\* A C-instruction w, with addr the RAM address in A and out the ALU's output.
\* m = [ram, A, D, pc, log, fault]; log lists the RAM addresses written, in
\* order; fault records an access outside the RAM kept.
CpuCompute(m, w, addr, out) ==
    [ram |-> IF Bit(w, 3) = 1 /\ InRam(addr) THEN [m.ram EXCEPT ![addr] = out] ELSE m.ram,
     A |-> IF Bit(w, 5) = 1 THEN out ELSE m.A,
     D |-> IF Bit(w, 4) = 1 THEN out ELSE m.D,
     pc |-> IF \/ (Bit(w, 2) = 1 /\ out >= 32768)
               \/ (Bit(w, 1) = 1 /\ out = 0)
               \/ (Bit(w, 0) = 1 /\ out < 32768 /\ out # 0)
            THEN addr ELSE m.pc + 1,
     log |-> IF Bit(w, 3) = 1 THEN Append(m.log, addr) ELSE m.log,
     fault |-> m.fault \/ ((Bit(w, 12) = 1 \/ Bit(w, 3) = 1) /\ ~InRam(addr))]

CpuWord(m, w, addr) ==
    IF w < 32768
    THEN [m EXCEPT !.A = w, !.pc = m.pc + 1]
    ELSE CpuCompute(m, w, addr,
                    Alu(m.D,
                        IF Bit(w, 12) = 1 THEN (IF InRam(addr) THEN m.ram[addr] ELSE 0)
                        ELSE m.A,
                        (w \div 64) % 64))

\* One instruction of the program words (the ROM, as numbers).
CpuStep(words, m) == CpuWord(m, words[m.pc + 1], m.A % 32768)

\* --------------------------------------- jack_analyzer: tokenizer.rs
KEYWORDS ==
    { <<"c", "l", "a", "s", "s">>,
      <<"m", "e", "t", "h", "o", "d">>,
      <<"f", "u", "n", "c", "t", "i", "o", "n">>,
      <<"c", "o", "n", "s", "t", "r", "u", "c", "t", "o", "r">>,
      <<"i", "n", "t">>,
      <<"b", "o", "o", "l", "e", "a", "n">>,
      <<"c", "h", "a", "r">>,
      <<"v", "o", "i", "d">>,
      <<"v", "a", "r">>,
      <<"s", "t", "a", "t", "i", "c">>,
      <<"f", "i", "e", "l", "d">>,
      <<"l", "e", "t">>,
      <<"d", "o">>,
      <<"i", "f">>,
      <<"e", "l", "s", "e">>,
      <<"r", "e", "t", "u", "r", "n">>,
      <<"t", "r", "u", "e">>,
      <<"f", "a", "l", "s", "e">>,
      <<"n", "u", "l", "l">>,
      <<"t", "h", "i", "s">>,
      <<"w", "h", "i", "l", "e">> }

SYMBOLS == { "{", "}", "(", ")", "[", "]", ".", ",", ";", "+", "-", "*", "/", "&", "|", "<", ">", "=", "~" }

TKeyword(v) == [kind |-> "Keyword", text |-> v, val |-> 0]
TSymbol(ch) == [kind |-> "Symbol", text |-> <<ch>>, val |-> 0]
TIdentifier(v) == [kind |-> "Identifier", text |-> v, val |-> 0]
TInt(n) == [kind |-> "Int", text |-> << >>, val |-> n]
TString(v) == [kind |-> "String", text |-> v, val |-> 0]

\* char::is_whitespace, for the characters a source line is made of here.
Whitespace == {" ", "\t"}

\* str::trim
RECURSIVE TrimStart(_)
TrimStart(s) == IF s # << >> /\ Head(s) \in Whitespace THEN TrimStart(Tail(s)) ELSE s

RECURSIVE TrimEnd(_)
TrimEnd(s) == IF s # << >> /\ s[Len(s)] \in Whitespace
              THEN TrimEnd(SubSeq(s, 1, Len(s) - 1)) ELSE s

Trim(s) == TrimEnd(TrimStart(s))

\* str::starts_with
StartsWith(s, pre) == Len(pre) <= Len(s) /\ SubSeq(s, 1, Len(pre)) = pre

T_SlashSlash == <<"/", "/">>
T_ApiOpenSp == <<"/", "*", "*", " ">>
T_ApiOpen == <<"/", "*", "*">>
T_SpClose == <<" ", "*", "/">>
T_Close == <<"*", "/">>

\* line.split_once("//"), then the part before it; the line when there is none.
BeforeLineComment(line) ==
    LET at == { i \in 1..(Len(line) - 1) : line[i] = "/" /\ line[i + 1] = "/" }
    IN IF at = {} THEN line
       ELSE SubSeq(line, 1, (CHOOSE i \in at : \A j \in at : i <= j) - 1)

NoChar == ""

\* Line::new
LineNew(line) ==
    [raw_line |-> line, index |-> 0, current_slice |-> << >>,
     current_is_string |-> FALSE, current_symbol |-> NoChar]

\* Line::token; the unwrap of slice.parse::<i16>() panics.
LineToken(line) ==
    LET slice == line.current_slice
    IN IF line.current_is_string THEN Some(TString(slice))
       ELSE IF line.current_symbol # NoChar THEN Some(TSymbol(line.current_symbol))
       ELSE IF slice \in KEYWORDS THEN Some(TKeyword(slice))
       ELSE IF \A i \in 1..Len(slice) : IsDigit(slice[i])
            THEN (IF ParseI16(slice).ok THEN Some(TInt(ParseI16(slice).val)) ELSE Panic)
       ELSE Some(TIdentifier(slice))

\* Line::reset_current
reset_current(line) ==
    [line EXCEPT !.current_slice = << >>, !.current_is_string = FALSE,
                 !.current_symbol = NoChar]

\* let token = self.token(); self.reset_current(); Some(token)
TokenAndReset(line) == [line |-> reset_current(line), token |-> LineToken(line)]

\* Line::next: the line after the call and what the call returned.
RECURSIVE LineNext(_)
LineNext(line) ==
    IF line.current_symbol # NoChar
    THEN [line |-> reset_current(line), token |-> Some(TSymbol(line.current_symbol))]
    ELSE
      LET n == line.index
          adv == [line EXCEPT !.index = n + 1]
          slice == line.current_slice
      IN IF n >= Len(line.raw_line)
         THEN (IF slice = << >> THEN [line |-> adv, token |-> None]
               ELSE TokenAndReset(adv))
         ELSE
           LET ch == line.raw_line[n + 1]
               pushed == [adv EXCEPT !.current_slice = Append(@, ch)]
           IN CASE ch = " " ->
                     IF line.current_is_string THEN LineNext(pushed)
                     ELSE IF Len(slice) > 0 THEN TokenAndReset(adv)
                     ELSE LineNext(adv)
                [] ch = "\"" ->
                     IF slice = << >>
                     THEN LineNext([adv EXCEPT !.current_is_string = TRUE])
                     ELSE TokenAndReset(adv)
                [] ch \in SYMBOLS ->
                     IF line.current_is_string THEN LineNext(pushed)
                     ELSE IF Len(slice) > 0
                     THEN [line |-> [reset_current(adv) EXCEPT !.current_symbol = ch],
                           token |-> LineToken(adv)]
                     ELSE LineNext([adv EXCEPT !.current_symbol = ch])
                [] OTHER -> LineNext(pushed)

\* Tokenizer::new
TokenizerNew(file) == [lines |-> file, current_line |-> LineNew(<< >>), is_comment |-> FALSE]

\* Tokenizer::next: the tokenizer after the call and what the call returned.
RECURSIVE TokenizerNext(_)
TokenizerNext(t) ==
    LET r == LineNext(t.current_line)
        t1 == [t EXCEPT !.current_line = r.line]
    IN IF r.token.kind = "Some" THEN [t |-> t1, token |-> r.token]
       ELSE IF r.token.kind = "Panic" THEN [t |-> t, token |-> Panic]
       ELSE IF t1.lines = << >> THEN [t |-> t1, token |-> None]
       ELSE
         LET line == Trim(Head(t1.lines))
             t2 == [t1 EXCEPT !.lines = Tail(@)]
         IN IF StartsWith(line, T_ApiOpenSp) /\ EndsWith(line, T_SpClose)
            THEN TokenizerNext(t2)
            ELSE IF StartsWith(line, T_ApiOpen)
            THEN TokenizerNext([t2 EXCEPT !.is_comment = TRUE])
            ELSE IF StartsWith(line, T_Close)
            THEN TokenizerNext([t2 EXCEPT !.is_comment = FALSE])
            ELSE IF t2.is_comment THEN TokenizerNext(t2)
            ELSE TokenizerNext([t2 EXCEPT !.current_line = LineNew(BeforeLineComment(line))])

\* ------------------------------------------------------------------ state
VARIABLES
    \* vmtranslator lib.rs (run, handle_file) and the machine its output runs on
    config,     \* Config.source: [kind, path]
    fs,         \* the files: path -> the commands its Parser yields
    phase,      \* where run is
    entries,    \* run: the directory entries not yet visited
    platform,   \* handle_file: the Hack instance of the current file
    pending,    \* handle_file: the commands the parser has still to yield
    output,     \* the lines written to the destination
    blocks,     \* for each piece of output: its command and its ROM address
    setups,     \* the test scripts of the program: initial stack and pointers
    rom,        \* the loaded program: the words of the .hack file, as numbers
    cpu,        \* the machine: [ram, A, D, pc, log, fault]
    pre,        \* the machine when it entered the code of block last
    last,       \* the block it is executing or has just left (0: none yet)
    calls,      \* the calls entered and not yet returned from: the machine at each
    ret,        \* the call the return being executed (or just executed) answers
    \* translator instances driven command by command, as the unit tests do
    insts, cur, cmds, outs,
    \* assembler lib.rs (run)
    asmLines, asmPhase, asmIdx, asmSt, asmOut,
    \* jack_analyzer tokenizer.rs
    source,     \* the .jack file: its lines, and what it is made of
    tokenizer,  \* the Tokenizer: [lines, current_line, is_comment]
    tokens,     \* the tokens it has yielded
    lexing,     \* "run", "end" (next returned None) or "panic"
    \* jack_analyzer parser.rs (VM::compile)
    jprog,      \* the program compiled: its class, and the tokens of its file
    jtoks,      \* the Peekable<Tokenizer>: the tokens it has still to yield
    jstage,     \* where compile is: "next", "vars", "subs", "ok" or "panic"
    jclass,     \* the Class the parser yielded last
    jvm,        \* the VM compiling it
    jcur,       \* declarations, or subroutines, compile_class has gone through
    jcode,      \* compile_class: the instructions it has gathered
    jout,       \* the lines written to the output file
    \* vmtranslator parser.rs (Parser)
    vfile,      \* the .vm file: its lines, and what each is
    vlines,     \* the Parser: the lines it has still to read
    vout,       \* the commands it has yielded
    vstage      \* "run", or "end" (next returned None)

runVars == << config, fs, phase, entries, platform, pending, output, blocks,
              setups, rom, cpu, pre, last, calls, ret >>
unitVars == << insts, cur, cmds, outs >>
asmVars == << asmLines, asmPhase, asmIdx, asmSt, asmOut >>
tokVars == << source, tokenizer, tokens, lexing >>
compVars == << jprog, jtoks, jstage, jclass, jvm, jcur, jcode, jout >>
vmpVars == << vfile, vlines, vout, vstage >>
jackVars == << tokVars, compVars, vmpVars >>
vars == << runVars, unitVars, asmVars, jackVars >>

\* ---------------------------------------------------------- file system
P_Foo == <<"F", "o", "o", ".", "v", "m">>
P_dMain == <<"d", "/", "M", "a", "i", "n", ".", "v", "m">>
P_dSys == <<"d", "/", "S", "y", "s", ".", "v", "m">>
P_Main == <<"M", "a", "i", "n", ".", "v", "m">>
P_hidden == <<".", "v", "m">>
D_d == <<"d", "/">>
D_here == <<".", "/">>

\* A path as the file system keys it: without a leading "./".
Normalise(p) == IF Len(p) >= 2 /\ SubSeq(p, 1, 2) = D_here THEN SubSeq(p, 3, Len(p)) ELSE p

IsPrefix(a, b) == Len(a) <= Len(b) /\ SubSeq(b, 1, Len(a)) = a

\* fs::read_dir(directory): the paths of the files directly in it.
ReadDir(files, directory) ==
    LET d == Normalise(directory)
    IN { directory \o SubSeq(f, Len(d) + 1, Len(f)) :
            f \in { g \in DOMAIN files :
                      /\ IsPrefix(d, g)
                      /\ \A i \in (Len(d) + 1)..Len(g) : g[i] # "/" } }

\* Path::ends_with(child), child one component: the last component is child.
PathEndsWith(path, child) == FileName(path) = child

\* ------------------------------------------------------------- programs
F_f == <<"f">>
F_g == <<"g">>
L_H == <<"H">>

Halt == << Label(L_H), GoTo(L_H) >>

ArithOps == {"add", "sub", "and", "or", "neg", "not", "eq", "gt", "lt"}

\* Operand words, as 16-bit patterns (32768 is -32768, 65535 is -1).
Words == {0, 1, 7, 8, 32767, 32768, 65535}

ArithProgram(op) == << Arithmetic(op) >> \o Halt

ConstProgram(c1, c2, op) ==
    << Push("constant", c1), Push("constant", c2), Arithmetic(op) >> \o Halt

Body(b) ==
    CASE b = 1 -> << Push("constant", 42) >>
      [] b = 2 -> << Push("constant", 275), Pop("pointer", 0),
                     Push("constant", 276), Pop("pointer", 1), Push("pointer", 0) >>
      [] b = 3 -> << Push("argument", 0), Push("constant", 1), Arithmetic("add") >>
      [] b = 4 -> << Push("constant", 5), Call(F_g, 1) >>
      [] b = 5 -> << Push("constant", 3), Pop("local", 0), Push("local", 0) >>

Bodies == 1..5

CallProgram(n, k, b) ==
    << Call(F_f, n) >> \o Halt
    \o << Function(F_f, k) >> \o Body(b) \o << Return >>
    \o << Function(F_g, 1), Push("argument", 0), Push("local", 0), Arithmetic("add"),
          Return >>

L_x == <<"x">>

\* Two functions that use the same label name; jump is GoTo or IfGoTo.
LabelProgram(jump) ==
    << Call(F_g, 0) >> \o Halt
    \o << Function(F_f, 0), Push("constant", 1), IfGoTo(L_x), Push("constant", 5),
          Label(L_x), Push("constant", 2), Return,
          Function(F_g, 0), Push("constant", 3), Push("constant", 1),
          [kind |-> jump, seg |-> "", op |-> "", name |-> L_x, n |-> 0],
          Push("constant", 6), Label(L_x), Push("constant", 4), Return >>

PointedSegments == {"local", "argument", "this", "that"}

PopProgram(seg, i) == << Pop(seg, i) >> \o Halt

\* What a test script sets before the program runs: the stack and the four
\* segment pointers.
StackBase == 256
Garbage(a) == (a % 7) + 1

Machine(stack, ptrs) ==
    [ram |-> [a \in (0..LowTop) \cup (StackBase..RamTop) |->
                CASE a = 0 -> StackBase + Len(stack)
                  [] a \in 1..4 -> ptrs[a]
                  [] a >= StackBase /\ a < StackBase + Len(stack) -> stack[a - StackBase + 1]
                  [] a >= StackBase + Len(stack) -> Garbage(a)
                  [] OTHER -> 0],
     A |-> 0, D |-> 12345, pc |-> 0, log |-> << >>, fault |-> FALSE]

Ptrs1 == <<270, 272, 280, 278>>
Ptrs2 == <<266, 264, 281, 279>>

OneFile(path, prog) == [config |-> [kind |-> "File", path |-> path],
                        fs |-> (path :> prog)]

Setup(stack, ptrs) == [stack |-> stack, ptrs |-> ptrs]

\* A scenario: the files, the source given to run, and the test scripts.
Scenarios ==
    { [files |-> OneFile(P_Foo, ArithProgram(op)),
       setups |-> { Setup(<<x, y>>, Ptrs1) : x \in Words, y \in Words }] : op \in ArithOps }
    \cup
    { [files |-> OneFile(P_Foo, ConstProgram(c1, c2, op)),
       setups |-> { Setup(<< >>, Ptrs1) }] :
         c1 \in {7, 32767}, c2 \in {8, 0}, op \in ArithOps }
    \cup
    { [files |-> OneFile(P_dMain, CallProgram(n, k, b)),
       setups |-> { Setup(st, p) : st \in {<<0, 7>>, <<65535, 8>>, <<7, 0>>},
                                   p \in {Ptrs1, Ptrs2} }] :
         n \in 0..2, k \in 0..2, b \in Bodies }
    \cup
    { [files |-> OneFile(P_Foo, PopProgram(seg, i)),
       setups |-> { Setup(st, p) : st \in {<<7>>, <<8, 65535>>, <<32768, 0>>},
                                   p \in {Ptrs1, Ptrs2} }] :
         seg \in PointedSegments, i \in 0..2 }
    \cup
    { [files |-> OneFile(P_Foo, LabelProgram(jump)),
       setups |-> { Setup(<< >>, Ptrs1) }] : jump \in {"GoTo", "IfGoTo"} }
    \cup
    { [files |-> [config |-> [kind |-> "Directory", path |-> d], fs |-> f],
       setups |-> { Setup(<< >>, Ptrs1) }] :
         d \in {D_d, D_here},
         f \in { (P_dMain :> CallProgram(0, 0, 1)) @@ (P_dSys :> ArithProgram("add")),
                 (P_Main :> ArithProgram("add")) @@ (P_dSys :> ArithProgram("sub")),
                 (P_hidden :> ConstProgram(7, 8, "add")) @@ (P_Main :> ArithProgram("eq")) } }

\* ------------------------------------------------- defaults of unused parts
NoHack == [static_identifier |-> NoSym, label_prefix |-> NoSym, counter |-> 0,
           func_counter |-> 0]
EndMark == [kind |-> "End", seg |-> "", op |-> "", name |-> NoSym, n |-> 0]
NoMachine == Machine(<< >>, <<0, 0, 0, 0>>)
NoCall == [at |-> 0, m |-> NoMachine]

RunIdle ==
    /\ config = [kind |-> "None", path |-> NoSym]
    /\ fs = << >>
    /\ phase = "idle"
    /\ entries = {}
    /\ platform = NoHack
    /\ pending = << >>
    /\ output = << >>
    /\ blocks = << >>
    /\ setups = {}
    /\ rom = << >>
    /\ cpu = NoMachine
    /\ pre = NoMachine
    /\ last = 0
    /\ calls = << >>
    /\ ret = NoCall

UnitIdle == insts = << >> /\ cur = 0 /\ cmds = << >> /\ outs = << >>

AsmIdle ==
    /\ asmLines = << >>
    /\ asmPhase = "idle"
    /\ asmIdx = 0
    /\ asmSt = AsmStart
    /\ asmOut = << >>

NoSource == [items |-> << >>, lines |-> << >>]

TokIdle ==
    /\ source = NoSource
    /\ tokenizer = TokenizerNew(<< >>)
    /\ tokens = << >>
    /\ lexing = "idle"

CompIdle ==
    /\ jprog = [kind |-> "", class |-> << >>, tokens |-> << >>, how |-> "", at |-> 0]
    /\ jtoks = << >>
    /\ jstage = "idle"
    /\ jclass = << >>
    /\ jvm = << >>
    /\ jcur = 0
    /\ jcode = << >>
    /\ jout = << >>

VmpIdle ==
    /\ vfile = << >>
    /\ vlines = << >>
    /\ vout = << >>
    /\ vstage = "idle"

JackIdle == TokIdle /\ CompIdle /\ VmpIdle

\* ------------------------------------------------- vmtranslator: lib.rs run
\* Number of instructions (A and C lines) among lines: the ROM address of
\* whatever is written next.
InstrCount(lines) == Len(SelectSeq(lines, LAMBDA l : l.t \in {"A", "C"}))

Init ==
    /\ \E sc \in Scenarios :
          /\ config = sc.files.config
          /\ fs = sc.files.fs
          /\ setups = sc.setups
    /\ cpu = NoMachine
    /\ pre = NoMachine
    /\ phase = "start"
    /\ entries = {}
    /\ platform = NoHack
    /\ pending = << >>
    /\ output = << >>
    /\ blocks = << >>
    /\ rom = << >>
    /\ last = 0
    /\ calls = << >>
    /\ ret = NoCall
    /\ UnitIdle
    /\ AsmIdle
    /\ JackIdle

\* handle_file(filename): File::open, Parser::new, Hack::new.
OpenFile(filename) ==
    IF Normalise(filename) \in DOMAIN fs
    THEN /\ platform' = HackNew(filename)
         /\ pending' = fs[Normalise(filename)]
         /\ phase' = "file"
    ELSE /\ phase' = "failed"
         /\ UNCHANGED << platform, pending >>

\* run, Source::File(filename).
RunFile ==
    /\ phase = "start"
    /\ config.kind = "File"
    /\ OpenFile(config.path)
    /\ UNCHANGED << config, fs, setups, entries, output, blocks, rom, cpu, pre, last, calls, ret >>

\* run, Source::Directory(directory): fs::read_dir.
RunDirectory ==
    /\ phase = "start"
    /\ config.kind = "Directory"
    /\ entries' = ReadDir(fs, config.path)
    /\ phase' = "dir"
    /\ UNCHANGED << config, fs, setups, platform, pending, output, blocks, rom, cpu, pre, last, calls, ret >>

\* run: one entry of the directory, in whatever order read_dir yields them.
DirEntry ==
    /\ phase = "dir"
    /\ \E path \in entries :
          /\ entries' = entries \ {path}
          /\ IF PathEndsWith(path, DotVm)
             THEN OpenFile(FileName(path))
             ELSE UNCHANGED << phase, platform, pending >>
    /\ UNCHANGED << config, fs, setups, output, blocks, rom, cpu, pre, last, calls, ret >>

\* handle_file: one command of the file.
TranslateCommand ==
    /\ phase = "file"
    /\ pending # << >>
    /\ LET command == Head(pending)
       IN /\ pending' = Tail(pending)
          /\ platform' = TranslateState(platform, command)
          /\ IF TranslateIsSome(command)
             THEN /\ output' = output \o << CommentLine >> \o TranslateAsm(platform, command)
                  /\ blocks' = Append(blocks, [cmd |-> command, addr |-> InstrCount(output)])
             ELSE UNCHANGED << output, blocks >>
    /\ UNCHANGED << config, fs, setups, phase, entries, rom, cpu, pre, last, calls, ret >>

\* handle_file returns: the parser is exhausted.
FileDone ==
    /\ phase = "file"
    /\ pending = << >>
    /\ phase' = IF config.kind = "File" THEN "end" ELSE "dir"
    /\ UNCHANGED << config, fs, setups, entries, platform, pending, output, blocks,
                    rom, cpu, pre, last, calls, ret >>

\* run: "// Program end" and Hack::end().
RunEnd ==
    /\ phase = "end" \/ (phase = "dir" /\ entries = {})
    /\ output' = output \o << CommentLine >> \o end
    /\ blocks' = Append(blocks, [cmd |-> EndMark, addr |-> InstrCount(output)])
    /\ phase' = "written"
    /\ UNCHANGED << config, fs, setups, entries, platform, pending, rom, cpu, pre, last, calls, ret >>

\* The destination file is given to the assembler (assembler lib.rs run:
\* File::open, the counters, the predefined symbols).
Assemble ==
    /\ phase = "written"
    /\ phase' = "assembling"
    /\ asmLines' = output
    /\ asmPhase' = "labels"
    /\ asmIdx' = 0
    /\ asmSt' = AsmStart
    /\ asmOut' = << >>
    /\ UNCHANGED << config, fs, setups, entries, platform, pending, output, blocks, rom,
                    cpu, pre, last, calls, ret >>

\* assembler run, first loop (label symbols), the next Chunk instructions.
AsmLabels ==
    /\ asmPhase = "labels"
    /\ LET ins == Instructions(asmLines)
           hi == IF asmIdx + Chunk < Len(ins) THEN asmIdx + Chunk ELSE Len(ins)
       IN /\ asmSt' = FoldSteps(LabelStep, asmSt, ins, asmIdx + 1, hi)
          /\ asmIdx' = IF hi = Len(ins) THEN 0 ELSE hi
          /\ asmPhase' = IF hi = Len(ins) THEN "variables" ELSE "labels"
    /\ UNCHANGED << asmLines, asmOut >>

\* assembler run, second loop (variable symbols), the next Chunk instructions.
AsmVariables ==
    /\ asmPhase = "variables"
    /\ LET ins == Instructions(asmLines)
           hi == IF asmIdx + Chunk < Len(ins) THEN asmIdx + Chunk ELSE Len(ins)
       IN /\ asmSt' = FoldSteps(VariableStep, asmSt, ins, asmIdx + 1, hi)
          /\ asmIdx' = IF hi = Len(ins) THEN 0 ELSE hi
          /\ asmPhase' = IF hi = Len(ins) THEN "emit" ELSE "variables"
    /\ UNCHANGED << asmLines, asmOut >>

\* assembler run, third loop: the words are written, up to the first
\* instruction whose to_decimal panics.
AsmEmit ==
    /\ asmPhase = "emit"
    /\ LET results == Decimals(Instructions(asmLines), asmSt.dictionary)
           bad == { i \in 1..Len(results) : results[i].kind = "Panic" }
           stop == IF bad = {} THEN Len(results)
                   ELSE (CHOOSE i \in bad : \A j \in bad : i <= j) - 1
       IN /\ asmOut' = Written(SubSeq(results, 1, stop))
          /\ asmPhase' = IF bad = {} THEN "done" ELSE "panicked"
    /\ UNCHANGED << asmLines, asmIdx, asmSt >>

\* The .hack file is loaded into the machine's ROM.
Load ==
    /\ phase = "assembling"
    /\ asmPhase = "done"
    /\ rom' = LoadRom(asmOut)
    /\ phase' = "loaded"
    /\ UNCHANGED << config, fs, setups, entries, platform, pending, output, blocks, cpu,
                    pre, last, calls, ret >>

Starts == { blocks[j].addr : j \in 1..Len(blocks) }

\* The block whose code starts at ROM address a (one with code, when
\* blocks without code share the address).
BlockAt(a) == CHOOSE j \in 1..Len(blocks) :
                 /\ blocks[j].addr = a
                 /\ \A i \in 1..Len(blocks) : blocks[i].addr = a => i <= j

\* The test script sets the stack and the segment pointers.
TestSetup ==
    /\ phase = "loaded"
    /\ \E su \in setups :
          /\ cpu' = Machine(su.stack, su.ptrs)
          /\ pre' = Machine(su.stack, su.ptrs)
    /\ phase' = "running"
    /\ UNCHANGED << config, fs, setups, entries, platform, pending, output, blocks, rom,
                    last, calls, ret >>

\* The machine executes one instruction.  On entering the code of a VM
\* command the machine is remembered in pre and the write log starts again;
\* a call is remembered until the return that answers it.
ExecStep ==
    /\ phase = "running"
    /\ ~cpu.fault
    /\ cpu.pc < Len(rom)
    /\ IF cpu.pc \in Starts
       THEN LET j == BlockAt(cpu.pc)
                m == [cpu EXCEPT !.log = << >>]
            IN /\ pre' = m
               /\ last' = j
               /\ cpu' = CpuStep(rom, m)
               /\ calls' = CASE blocks[j].cmd.kind = "Call" ->
                                   Append(calls, [at |-> j, m |-> m])
                             [] blocks[j].cmd.kind = "Return" /\ calls # << >> ->
                                   SubSeq(calls, 1, Len(calls) - 1)
                             [] OTHER -> calls
               /\ ret' = IF blocks[j].cmd.kind = "Return"
                         THEN (IF calls # << >> THEN calls[Len(calls)] ELSE NoCall)
                         ELSE ret
       ELSE /\ cpu' = CpuStep(rom, cpu)
            /\ UNCHANGED << pre, last, calls, ret >>
    /\ UNCHANGED << config, fs, setups, phase, entries, platform, pending, output,
                    blocks, rom >>

Next ==
    \/ (RunFile /\ UNCHANGED << unitVars, asmVars, jackVars >>)
    \/ (RunDirectory /\ UNCHANGED << unitVars, asmVars, jackVars >>)
    \/ (DirEntry /\ UNCHANGED << unitVars, asmVars, jackVars >>)
    \/ (TranslateCommand /\ UNCHANGED << unitVars, asmVars, jackVars >>)
    \/ (FileDone /\ UNCHANGED << unitVars, asmVars, jackVars >>)
    \/ (RunEnd /\ UNCHANGED << unitVars, asmVars, jackVars >>)
    \/ (Assemble /\ UNCHANGED << unitVars, jackVars >>)
    \/ (AsmLabels /\ UNCHANGED << runVars, unitVars, jackVars >>)
    \/ (AsmVariables /\ UNCHANGED << runVars, unitVars, jackVars >>)
    \/ (AsmEmit /\ UNCHANGED << runVars, unitVars, jackVars >>)
    \/ (Load /\ UNCHANGED << unitVars, asmVars, jackVars >>)
    \/ (TestSetup /\ UNCHANGED << unitVars, asmVars, jackVars >>)
    \/ (ExecStep /\ UNCHANGED << unitVars, asmVars, jackVars >>)

Spec == Init /\ [][Next]_vars


\* ------------------------------------ translator instances, one per file
\* As handle_file and the unit tests of hack.rs use the translator: Hack::new
\* for a file, then translate command by command.  An instance is used until
\* the next one is created.
P_A == <<"A", ".", "v", "m">>
P_A1 == <<"A", "1", ".", "v", "m">>
P_dA_1 == <<"d", "/", "A", ".", "1", ".", "v", "m">>

UnitFiles == {P_A, P_A1, P_dA_1}

UnitCommands ==
    { Arithmetic("eq"), Arithmetic("gt"), Arithmetic("lt"), Call(F_f, 0),
      Push("static", 2), Push("static", 12), Pop("static", 12) }

\* Commands translated so far, by all instances.
Translated == LET Sum[i \in 0..Len(cmds)] == IF i = 0 THEN 0 ELSE Sum[i - 1] + Len(cmds[i])
              IN Sum[Len(cmds)]

InitUnit ==
    /\ RunIdle
    /\ AsmIdle
    /\ JackIdle
    /\ UnitIdle

\* Hack::new(filename).
UnitNew ==
    /\ Len(insts) < MaxInsts
    /\ \E filename \in UnitFiles :
          /\ \A i \in 1..Len(insts) : insts[i].file # filename
          /\ insts' = Append(insts, [file |-> filename, hack |-> HackNew(filename)])
    /\ cur' = Len(insts) + 1
    /\ cmds' = Append(cmds, << >>)
    /\ outs' = Append(outs, << >>)

\* Hack::translate(command) on the instance in use; outs keeps what each
\* call returned.
UnitTranslate ==
    /\ cur # 0
    /\ Translated < MaxCmds
    /\ \E command \in UnitCommands :
          /\ insts' = [insts EXCEPT ![cur].hack = TranslateState(@, command)]
          /\ cmds' = [cmds EXCEPT ![cur] = Append(@, command)]
          /\ outs' = [outs EXCEPT ![cur] =
                        Append(@, IF TranslateIsSome(command)
                                  THEN TranslateAsm(insts[cur].hack, command)
                                  ELSE << >>)]
    /\ UNCHANGED cur

NextUnit ==
    \/ (UnitNew /\ UNCHANGED << runVars, asmVars, jackVars >>)
    \/ (UnitTranslate /\ UNCHANGED << runVars, asmVars, jackVars >>)

SpecUnit == InitUnit /\ [][NextUnit]_vars


\* ------------------------------------------------ the assembler alone
S_x == <<"x">>
S_y == <<"y">>
S_LOOP == <<"L", "O", "O", "P">>
S_KBD == <<"K", "B", "D">>
S_SCREEN == <<"S", "C", "R", "E", "E", "N">>
RSym(n) == <<"R">> \o FmtNat(n)

\* The comp, dest and jump mnemonics of the specification (spec.md 5).
SpecComps ==
    {"0", "1", "-1", "D", "A", "M", "!D", "!A", "!M", "-D", "-A", "-M",
     "D+1", "A+1", "M+1", "D-1", "A-1", "M-1", "D+A", "D+M", "A+D", "M+D",
     "D-A", "D-M", "A-D", "M-D", "D&A", "D&M", "A&D", "M&D",
     "D|A", "D|M", "A|D", "M|D"}
SpecDests ==
    {"", "M", "D", "MD", "DM", "A", "AM", "MA", "AD", "DA",
     "ADM", "AMD", "DAM", "DMA", "MAD", "MDA"}
SpecJumps == << "", "JGT", "JEQ", "JGE", "JLT", "JNE", "JLE", "JMP" >>

\* Lines a short program is made of.
AsmItems ==
    { AInstr(S_x), AInstr(S_y), LInstr(S_x), AInstr(S_LOOP), LInstr(S_LOOP),
      AInstr(S_SP), LInstr(S_SP), ANum(7), CInstr("D", "A", "JMP") }

AllPredefined ==
    [n \in 1..16 |-> AInstr(RSym(n - 1))]
    \o << CommentLine, AInstr(S_SP), AInstr(S_LCL), AInstr(S_ARG), AInstr(S_THIS),
          AInstr(S_THAT), AInstr(S_SCREEN), AInstr(S_KBD), LInstr(S_LOOP),
          AInstr(S_x), AInstr(S_LOOP), AInstr(S_y), AInstr(S_x) >>

AsmPrograms ==
    UNION { [1..n -> AsmItems] : n \in 1..MaxAsmLen }
    \cup { [j \in 1..8 |-> CInstr(d, c, SpecJumps[j])] : c \in SpecComps, d \in SpecDests }
    \cup { AllPredefined }

\* assembler run on a file: File::open, the counters, the predefined symbols.
InitAsm ==
    /\ RunIdle
    /\ UnitIdle
    /\ JackIdle
    /\ asmLines \in AsmPrograms
    /\ asmPhase = "labels"
    /\ asmIdx = 0
    /\ asmSt = AsmStart
    /\ asmOut = << >>

NextAsm ==
    \/ (AsmLabels /\ UNCHANGED << runVars, unitVars, jackVars >>)
    \/ (AsmVariables /\ UNCHANGED << runVars, unitVars, jackVars >>)
    \/ (AsmEmit /\ UNCHANGED << runVars, unitVars, jackVars >>)

SpecAsm == InitAsm /\ [][NextAsm]_vars


\* =============================================================== claims
\* Observers of the machine at the boundary of a VM command's code.
SPof(m) == m.ram[0]
LCLof(m) == m.ram[1]
ARGof(m) == m.ram[2]
THISof(m) == m.ram[3]
THATof(m) == m.ram[4]

\* The machine has just left the code of block last.
Completed == phase = "running" /\ last # 0 /\ cpu.pc \in Starts /\ ~cpu.fault
LastCmd == blocks[last].cmd

\* RAM is as it was on entry to the block, except at the addresses in ex.
SameRamExcept(ex) == \A a \in DOMAIN cpu.ram : a \in ex \/ cpu.ram[a] = pre.ram[a]

Signed(w) == IF w >= 32768 THEN w - 65536 ELSE w

\* x op y on 16-bit words.
WordOp(op, x, y) ==
    CASE op = "add" -> (x + y) % 65536
      [] op = "sub" -> (x - y) % 65536
      [] op = "and" -> BitAndU(x, y, 15)
      [] op = "or" -> BitOrU(x, y, 15)

BinaryDone == /\ Completed
              /\ LastCmd.kind = "Arithmetic"
              /\ LastCmd.op \in {"add", "sub", "and", "or"}
              /\ SPof(pre) >= StackBase + 2

\* C7: add, sub, and, or with x second from top and y on top leave
\* RAM[SP_old - 2] = x op y as a 16-bit word and SP = SP_old - 1 and change no
\* other RAM cell; push constant 7, push constant 8, add from SP = 256 ends
\* with RAM[0] = 257 and RAM[256] = 15.
C7_BinaryOps ==
    /\ BinaryDone =>
          LET S == SPof(pre)
          IN /\ cpu.ram[S - 2] = WordOp(LastCmd.op, pre.ram[S - 2], pre.ram[S - 1])
             /\ SPof(cpu) = S - 1
             /\ SameRamExcept({0, S - 2})
    /\ (/\ Completed
        /\ fs = (P_Foo :> ConstProgram(7, 8, "add"))
        /\ config.kind = "File"
        /\ last = 3)
       => (cpu.ram[0] = 257 /\ cpu.ram[256] = 15)

C7_Witness ==
    /\ BinaryDone
    /\ LastCmd.op = "sub"
    /\ pre.ram[SPof(pre) - 2] = 7
    /\ pre.ram[SPof(pre) - 1] = 8
    /\ cpu.ram[SPof(pre) - 2] = 65535

C7_WitnessSeven ==
    /\ Completed
    /\ fs = (P_Foo :> ConstProgram(7, 8, "add"))
    /\ last = 3
    /\ cpu.ram[256] = 15

CompareDone == /\ Completed
               /\ LastCmd.kind = "Arithmetic"
               /\ LastCmd.op \in {"eq", "gt", "lt"}
               /\ SPof(pre) >= StackBase + 2

\* The jump condition of the command, on the 16-bit word d.
JumpHolds(op, d) ==
    CASE op = "eq" -> d = 0
      [] op = "gt" -> Signed(d) > 0
      [] op = "lt" -> Signed(d) < 0

\* C4: eq, gt, lt with x second from top and y on top compute D = x - y,
\* replace the two operands by one word that is -1 when the command's jump
\* condition (JEQ, JGT, JLT) holds for D and 0 otherwise, and leave SP
\* decreased by exactly 1 on both branches.
C4_Comparison ==
    CompareDone =>
       LET S == SPof(pre)
           d == (pre.ram[S - 2] - pre.ram[S - 1]) % 65536
       IN /\ cpu.D = d
          /\ cpu.ram[S - 2] = (IF JumpHolds(LastCmd.op, d) THEN 65535 ELSE 0)
          /\ SPof(cpu) = S - 1
          /\ SameRamExcept({0, S - 2})

C4_Witness ==
    /\ CompareDone
    /\ LastCmd.op = "gt"
    /\ pre.ram[SPof(pre) - 2] = 8
    /\ pre.ram[SPof(pre) - 1] = 7
    /\ cpu.ram[SPof(pre) - 2] = 65535

C4_WitnessFalse ==
    /\ CompareDone
    /\ LastCmd.op = "lt"
    /\ cpu.ram[SPof(pre) - 2] = 0
    /\ SPof(cpu) = SPof(pre) - 1


\* The ROM address of the code of function f: where its Function block starts.
FunctionAddr(f) ==
    blocks[CHOOSE j \in 1..Len(blocks) :
              blocks[j].cmd.kind = "Function" /\ blocks[j].cmd.name = f].addr

CallDone == Completed /\ LastCmd.kind = "Call"

ReturnDone == Completed /\ LastCmd.kind = "Return"

C1_WitnessNested ==
    /\ ReturnDone
    /\ ret.at > 1
    /\ Len(calls) = 1
    /\ blocks[ret.at].cmd.n = 1


\* The destination file is complete: run has returned Ok.
RunReturned == phase \in {"written", "assembling", "loaded", "running"}

\* The VM files directly in the source directory.
VmFiles == { p \in ReadDir(fs, config.path) : EndsWith(FileName(p), DotVm) }

BeginsWithBootstrap ==
    /\ Len(output) >= Len(bootstrap)
    /\ SubSeq(output, 1, Len(bootstrap)) = bootstrap

\* The bootstrap's first lines, @256 D=A @SP M=D, somewhere in the output.
HasBootstrap ==
    \E i \in 1..(Len(output) - 3) :
       SubSeq(output, i, i + 3) = SubSeq(bootstrap, 1, 4)

\* C8: for a directory source with more than one VM file the emitted assembly
\* begins with the bootstrap (SP = 256, then call Sys.init 0), before the
\* translation of any VM command; for a single VM file no bootstrap is
\* emitted.
C8_Bootstrap ==
    RunReturned =>
       /\ (config.kind = "Directory" /\ Cardinality(VmFiles) > 1) => BeginsWithBootstrap
       /\ config.kind = "File" => ~HasBootstrap

\* run has translated a directory with Main.vm and Sys.vm: the output is the
\* end loop alone.
C8_Witness ==
    /\ RunReturned
    /\ config.kind = "Directory"
    /\ VmFiles = {D_d \o FileName(P_dMain), D_d \o FileName(P_dSys)}
    /\ output = << CommentLine >> \o end

\* What run does emit: no bootstrap, whatever the source.
C8_NoBootstrapAtAll == RunReturned => ~HasBootstrap


\* ------------------------------------------------ translator instances
IsComparison(c) == c.kind = "Arithmetic" /\ c.op \in {"eq", "gt", "lt"}
IsCall(c) == c.kind = "Call"
IsStatic(c) == c.kind \in {"Push", "Pop"} /\ c.seg = "static"

\* The stem of each file of UnitFiles: its name without directories and ".vm".
Stem(file) ==
    CASE file = P_A -> <<"A">>
      [] file = P_A1 -> <<"A", "1">>
      [] file = P_dA_1 -> <<"A", ".", "1">>

\* The labels an assembly text defines, in order.
LabelsOf(asm) ==
    LET ls == SelectSeq(asm, LAMBDA l : l.t = "L")
    IN [a \in 1..Len(ls) |-> ls[a].sym]

\* All the assembly instance i has returned so far.
Emitted(i) ==
    LET Cat[j \in 0..Len(outs[i])] == IF j = 0 THEN << >> ELSE Cat[j - 1] \o outs[i][j]
    IN Cat[Len(outs[i])]

Comparisons(i) == { j \in 1..Len(cmds[i]) : IsComparison(cmds[i][j]) }
Calls(i) == { j \in 1..Len(cmds[i]) : IsCall(cmds[i][j]) }

S_ret == <<"$", "r", "e", "t", ".">>

\* C5: the assembly one instance emits for commands with N comparisons and
\* C calls defines exactly 2N + C labels (two per comparison, one per call),
\* no label twice, and the k-th call (0-based) uses the return label
\* <fileStem>$ret.<k>.
C5_LabelsDistinct ==
    \A i \in 1..Len(insts) :
       LET labels == LabelsOf(Emitted(i))
       IN /\ Len(labels) = 2 * Cardinality(Comparisons(i)) + Cardinality(Calls(i))
          /\ \A a, b \in 1..Len(labels) : a # b => labels[a] # labels[b]
          /\ \A j \in Comparisons(i) : Len(LabelsOf(outs[i][j])) = 2
          /\ \A j \in Calls(i) :
                LET k == Cardinality({ h \in Calls(i) : h < j })
                    R == Stem(insts[i].file) \o S_ret \o FmtNat(k)
                IN /\ LabelsOf(outs[i][j]) = << R >>
                   /\ outs[i][j][1] = AInstr(R)

\* A second call, after a comparison, of the instance for d/A.1.vm.
C5_Witness ==
    \E i \in 1..Len(insts) :
       /\ insts[i].file = P_dA_1
       /\ cmds[i] = << Call(F_f, 0), Arithmetic("lt"), Call(F_f, 0) >>
       /\ LabelsOf(outs[i][3]) = << <<"A", ".", "1", "$", "r", "e", "t", ".", "1">> >>
       /\ Len(LabelsOf(Emitted(i))) = 4

\* The symbols an assembly text addresses, SP apart.
SymbolsOf(asm) ==
    { asm[a].sym : a \in { b \in 1..Len(asm) : asm[b].t = "A" /\ asm[b].sym # S_SP } }

StaticSymbols(i) ==
    UNION { SymbolsOf(outs[i][j]) : j \in { h \in 1..Len(cmds[i]) : IsStatic(cmds[i][h]) } }

\* The static symbols instance i makes of the indices 0..MaxIdx.
StaticRange(i) == { StaticVariable(insts[i].hack, x) : x \in 0..MaxIdx }

\* C6: every push static i and pop static i of the instance created for stem
\* A addresses the symbol A.i alone, and instances created for different
\* stems share no static symbol, whatever the indices.
C6_StaticNamespacing ==
    /\ \A i \in 1..Len(insts) : \A j \in 1..Len(cmds[i]) :
          IsStatic(cmds[i][j]) =>
             SymbolsOf(outs[i][j]) = { Stem(insts[i].file) \o <<".">> \o FmtNat(cmds[i][j].n) }
    /\ \A i1, i2 \in 1..Len(insts) :
          (i1 < i2 /\ Stem(insts[i1].file) # Stem(insts[i2].file)) =>
             /\ StaticSymbols(i1) \cap StaticSymbols(i2) = {}
             /\ StaticRange(i1) \cap StaticRange(i2) = {}

\* The instance for A.vm has used static 12 and the one for A1.vm static 2.
C6_Witness ==
    \E i1, i2 \in 1..Len(insts) :
       /\ insts[i1].file = P_A
       /\ insts[i2].file = P_A1
       /\ StaticSymbols(i1) = { <<"A", ".", "1", "2">> }
       /\ StaticSymbols(i2) = { <<"A", "1", ".", "2">> }


\* ------------------------------------------------------- the assembler
\* The run of the assembler has written its output.
AsmDone == asmPhase = "done"

Ins == Instructions(asmLines)

\* The instructions that produce a word, in order, and the words written.
WordLines == SelectSeq(Ins, LAMBDA l : l.t \in {"A", "C"})
WordAt(k) == FromBinary(asmOut[k])

\* The predefined symbols and their values.
PredefinedSymbols ==
    { RSym(n) : n \in 0..15 } \cup {S_SP, S_LCL, S_ARG, S_THIS, S_THAT, S_SCREEN, S_KBD}

PredefinedValue(x) ==
    CASE x = S_SP -> 0
      [] x = S_LCL -> 1
      [] x = S_ARG -> 2
      [] x = S_THIS -> 3
      [] x = S_THAT -> 4
      [] x = S_SCREEN -> 16384
      [] x = S_KBD -> 24576
      [] OTHER -> CHOOSE n \in 0..15 : x = RSym(n)

DefinedLabels == { Ins[a].sym : a \in { b \in 1..Len(Ins) : Ins[b].t = "L" } }

\* A- and C-instructions before the (first) line (x).
LabelAddress(x) ==
    LET at == CHOOSE a \in 1..Len(Ins) :
                 /\ Ins[a] = LInstr(x)
                 /\ \A b \in 1..(a - 1) : Ins[b] # LInstr(x)
    IN Cardinality({ b \in 1..(at - 1) : Ins[b].t \in {"A", "C"} })

IsVariable(x) ==
    ~AllDigits(x) /\ x \notin PredefinedSymbols /\ x \notin DefinedLabels

FirstUse(x) == CHOOSE a \in 1..Len(WordLines) :
                  /\ WordLines[a] = AInstr(x)
                  /\ \A b \in 1..(a - 1) : WordLines[b] # AInstr(x)

Variables == { WordLines[a].sym :
                 a \in { b \in 1..Len(WordLines) :
                           WordLines[b].t = "A" /\ IsVariable(WordLines[b].sym) } }

VariableAddress(x) == 16 + Cardinality({ v \in Variables : FirstUse(v) < FirstUse(x) })

\* What @x stands for.
Resolved(x) ==
    IF AllDigits(x) THEN DigitsVal(x, 0)
    ELSE IF x \in PredefinedSymbols THEN PredefinedValue(x)
    ELSE IF x \in DefinedLabels THEN LabelAddress(x)
    ELSE VariableAddress(x)

\* C9: every @x is emitted as the predefined value when x is predefined,
\* otherwise as the number of A- and C-instructions before the line (x) when
\* x is a label defined anywhere in the file, otherwise as a variable address:
\* 16 for the first distinct variable in order of first appearance, the next
\* address for each further one, the same for every occurrence; a label line
\* produces no word, so @LOOP, (LOOP), D=A;JMP gives two words, the first 1.
C9_SymbolResolution ==
    AsmDone =>
       /\ Len(asmOut) = Len(WordLines)
       /\ \A k \in 1..Len(WordLines) :
             WordLines[k].t = "A" => WordAt(k) = Resolved(WordLines[k].sym)
       /\ asmLines = << AInstr(S_LOOP), LInstr(S_LOOP), CInstr("D", "A", "JMP") >>
             => Len(asmOut) = 2 /\ WordAt(1) = 1

\* A variable used before and after a label that is used before it is
\* defined: @y @LOOP (LOOP) @x gives 16, 2, 17.
C9_Witness ==
    /\ AsmDone
    /\ asmLines = << AInstr(S_y), AInstr(S_LOOP), LInstr(S_LOOP), AInstr(S_x) >>
    /\ WordAt(1) = 16
    /\ WordAt(2) = 2
    /\ WordAt(3) = 17

\* The Hack comp table: the a bit (the operand is M) and c1..c6.
RefComp(c) ==
    LET a == IF c \in {"M", "!M", "-M", "M+1", "M-1", "D+M", "M+D", "D-M", "M-D",
                       "D&M", "M&D", "D|M", "M|D"} THEN 64 ELSE 0
        cccccc ==
           CASE c = "0" -> <<1, 0, 1, 0, 1, 0>>
             [] c = "1" -> <<1, 1, 1, 1, 1, 1>>
             [] c = "-1" -> <<1, 1, 1, 0, 1, 0>>
             [] c = "D" -> <<0, 0, 1, 1, 0, 0>>
             [] c \in {"A", "M"} -> <<1, 1, 0, 0, 0, 0>>
             [] c = "!D" -> <<0, 0, 1, 1, 0, 1>>
             [] c \in {"!A", "!M"} -> <<1, 1, 0, 0, 0, 1>>
             [] c = "-D" -> <<0, 0, 1, 1, 1, 1>>
             [] c \in {"-A", "-M"} -> <<1, 1, 0, 0, 1, 1>>
             [] c = "D+1" -> <<0, 1, 1, 1, 1, 1>>
             [] c \in {"A+1", "M+1"} -> <<1, 1, 0, 1, 1, 1>>
             [] c = "D-1" -> <<0, 0, 1, 1, 1, 0>>
             [] c \in {"A-1", "M-1"} -> <<1, 1, 0, 0, 1, 0>>
             [] c \in {"D+A", "A+D", "D+M", "M+D"} -> <<0, 0, 0, 0, 1, 0>>
             [] c \in {"D-A", "D-M"} -> <<0, 1, 0, 0, 1, 1>>
             [] c \in {"A-D", "M-D"} -> <<0, 0, 0, 1, 1, 1>>
             [] c \in {"D&A", "A&D", "D&M", "M&D"} -> <<0, 0, 0, 0, 0, 0>>
             [] c \in {"D|A", "A|D", "D|M", "M|D"} -> <<0, 1, 0, 1, 0, 1>>
    IN a + 32 * cccccc[1] + 16 * cccccc[2] + 8 * cccccc[3] + 4 * cccccc[4]
         + 2 * cccccc[5] + cccccc[6]

\* The dest code: d1 d2 d3 say whether A, D, M are among the letters.
RefDest(d) ==
    (IF d \in {"A", "AM", "MA", "AD", "DA", "ADM", "AMD", "DAM", "DMA", "MAD", "MDA"}
     THEN 4 ELSE 0)
    + (IF d \in {"D", "MD", "DM", "AD", "DA", "ADM", "AMD", "DAM", "DMA", "MAD", "MDA"}
       THEN 2 ELSE 0)
    + (IF d \in {"M", "MD", "DM", "AM", "MA", "ADM", "AMD", "DAM", "DMA", "MAD", "MDA"}
       THEN 1 ELSE 0)

\* The jump code: j1 j2 j3 are out < 0, out = 0, out > 0.
RefJump(j) ==
    (IF j \in {"JLT", "JNE", "JLE", "JMP"} THEN 4 ELSE 0)
    + (IF j \in {"JEQ", "JGE", "JLE", "JMP"} THEN 2 ELSE 0)
    + (IF j \in {"JGT", "JGE", "JNE", "JMP"} THEN 1 ELSE 0)

\* C10: the word of dest=comp;jump has bits 15..13 = 111, bits 12..6 the
\* a/c1..c6 code of comp, bits 5..3 the dest code and bits 2..0 the jump code,
\* for every comp, dest (in any letter order) and jump of the specification;
\* an omitted dest or jump is 000; the assembler writes a word for every such
\* instruction, so that spellings with the same codes give the same word.
C10_CInstructionEncoding ==
    /\ asmPhase # "panicked"
    /\ AsmDone =>
          \A k \in 1..Len(WordLines) :
             WordLines[k].t = "C" =>
                LET w == WordAt(k)
                    l == WordLines[k]
                IN /\ k <= Len(asmOut)
                   /\ w \div 8192 = 7
                   /\ (w \div 64) % 128 = RefComp(l.comp)
                   /\ (w \div 8) % 8 = RefDest(l.dest)
                   /\ w % 8 = RefJump(l.jump)

\* MA=M+D;JLE is 111 1000010 101 110.
C10_Witness ==
    /\ AsmDone
    /\ Len(asmLines) = 8
    /\ asmLines[7] = CInstr("MA", "M+D", "JLE")
    /\ asmOut[7] = <<"1", "1", "1", "1", "0", "0", "0", "0",
                     "1", "0", "1", "0", "1", "1", "1", "0">>


\* ------------------------------------------------ the Jack tokenizer alone
\* Items a source file is made of, per run.
MaxItems == 2

T_let == <<"l", "e", "t">>
T_x == <<"x">>
T_f == <<"f">>
T_c == <<"c">>

\* What a file is made of: some lines of text (text) and the tokens the Jack
\* language gives them (expect).  form names the shape of the item.
Item(kind, form, text, expect, content) ==
    [kind |-> kind, form |-> form, text |-> text, expect |-> expect, content |-> content]

Toks_let == << TKeyword(T_let), TIdentifier(T_x), TSymbol("="), TInt(1), TSymbol(";") >>
Toks_x == << TIdentifier(T_x) >>

CodeItems ==
    { Item("code", "let", << <<"l", "e", "t", " ", "x", " ", "=", " ", "1", ";">> >>, Toks_let, << >>),
      Item("code", "max", << <<" ", " ", "3", "2", "7", "6", "7">> >>, << TInt(32767) >>, << >>) }

CommentItems ==
    { Item("comment", "line", << <<"/", "/", " ", "c">> >>, << >>, << >>),
      Item("comment", "trail", << <<"x", " ", "/", "/", " ", "c">> >>, Toks_x, << >>),
      Item("comment", "api1", << <<"/", "*", "*", " ", "c", " ", "*", "/">> >>, << >>, << >>),
      Item("comment", "apiN", << <<"/", "*", "*">>, <<" ", "*", " ", "c">>, <<" ", "*", "/">> >>, << >>, << >>),
      Item("comment", "apiEnd", << <<"/", "*", "*", " ", "c">>, <<" ", "*", " ", "c", " ", "*", "/">> >>, << >>, << >>),
      Item("comment", "apiTight", << <<"/", "*", "*", "c", "*", "/">> >>, << >>, << >>),
      Item("comment", "apiAfter", << <<"x", " ", "/", "*", "*", " ", "c", " ", "*", "/">> >>, Toks_x, << >>),
      Item("comment", "apiBefore", << <<"/", "*", "*", " ", "c", " ", "*", "/", " ", "x">> >>, Toks_x, << >>),
      Item("comment", "block1", << <<"/", "*", " ", "c", " ", "*", "/">> >>, << >>, << >>),
      Item("comment", "blockN", << <<"/", "*">>, <<"c">>, <<"*", "/">> >>, << >>, << >>) }

\* The forms Tokenizer::next has a branch for.
HandledForms == {"line", "trail", "api1", "apiN"}

\* A string literal between two pieces of code.
Frames ==
    { [pre |-> << >>, preToks |-> << >>, post |-> << >>, postToks |-> << >>],
      [pre |-> <<"f", "(">>, preToks |-> << TIdentifier(T_f), TSymbol("(") >>,
       post |-> <<")", ";", " ", "x">>, postToks |-> << TSymbol(")"), TSymbol(";"), TIdentifier(T_x) >>] }

Contents ==
    { << >>, <<"a">>, <<"a", " ", "b">>, <<"a", ";", "b">>, <<"l", "e", "t">>, <<"1", "2">>, <<"a", "/", "/", "b">> }

Quote == "\""

StringItems ==
    { Item("string", "string",
           << fr.pre \o <<Quote>> \o content \o <<Quote>> \o fr.post >>,
           fr.preToks \o << TString(content) >> \o fr.postToks, content) :
        fr \in Frames, content \in Contents }

\* Lexical errors: an integer constant over 32767, a string and a block
\* comment that are never closed, a character that is no part of Jack.
ErrorItems ==
    { Item("error", "int", << <<"l", "e", "t", " ", "x", " ", "=", " ", "3", "2", "7", "6", "8", ";">> >>, << >>, << >>),
      Item("error", "string", << <<"l", "e", "t", " ", "x", " ", "=", " ", "\"", "c", ";">> >>, << >>, << >>),
      Item("error", "api", << <<"/", "*", "*">>, <<" ", "*", " ", "c">> >>, << >>, << >>),
      Item("error", "block", << <<"/", "*", " ", "c">> >>, << >>, << >>),
      Item("error", "char", << <<"l", "e", "t", " ", "#", " ", "=", " ", "1", ";">> >>, << >>, << >>) }

RECURSIVE Flatten(_)
Flatten(ss) == IF ss = << >> THEN << >> ELSE Head(ss) \o Flatten(Tail(ss))

SourceOf(items) ==
    [items |-> items, lines |-> Flatten([i \in 1..Len(items) |-> items[i].text])]

SeqsOf(S) == UNION { [1..n -> S] : n \in 1..MaxItems }

CommentSources == { SourceOf(items) : items \in SeqsOf(CommentItems \cup CodeItems) }
StringSources == { SourceOf(items) : items \in SeqsOf(StringItems \cup CodeItems) }
ErrorSources ==
    { SourceOf(before \o <<e>> \o after) :
        before \in {<< >>} \cup { <<k>> : k \in CodeItems },
        e \in ErrorItems,
        after \in {<< >>} \cup { <<k>> : k \in CodeItems } }

Sources == CommentSources \cup StringSources \cup ErrorSources

\* Tokenizer::new(file)
InitTok ==
    /\ RunIdle
    /\ UnitIdle
    /\ AsmIdle
    /\ source \in Sources
    /\ tokenizer = TokenizerNew(source.lines)
    /\ tokens = << >>
    /\ lexing = "run"
    /\ CompIdle
    /\ VmpIdle

\* One call of Tokenizer::next, as the parsers make it.
TokNext ==
    /\ lexing = "run"
    /\ LET r == TokenizerNext(tokenizer)
       IN /\ tokenizer' = r.t
          /\ tokens' = IF r.token.kind = "Some" THEN Append(tokens, r.token.val) ELSE tokens
          /\ lexing' = CASE r.token.kind = "Some" -> "run"
                         [] r.token.kind = "None" -> "end"
                         [] OTHER -> "panic"
    /\ UNCHANGED source

NextTok == TokNext /\ UNCHANGED << runVars, unitVars, asmVars, compVars, vmpVars >>

SpecTok == InitTok /\ [][NextTok]_vars

\* The tokens the Jack language gives the file.
Expected == Flatten([i \in 1..Len(source.items) |-> source.items[i].expect])

Kinds == { source.items[i].kind : i \in 1..Len(source.items) }
Forms == { source.items[i].form : i \in 1..Len(source.items) }

\* C11: line comments and block comments (/** */ and /* */, on one line or
\* over several) are skipped, and the tokens outside them are yielded exactly
\* once, in source order: a file of code and comments lexes without a panic
\* and, when the tokenizer is exhausted, has yielded the tokens of its code.
C11_CommentsSkipped ==
    Kinds \subseteq {"code", "comment"}
        => /\ lexing # "panic"
           /\ lexing = "end" => tokens = Expected

\* The part of C11 the code keeps: the forms with a branch in Tokenizer::next.
C11_HandledForms ==
    (Kinds \subseteq {"code", "comment"} /\ Forms \subseteq HandledForms \cup {"let", "max"})
        => /\ lexing # "panic"
           /\ lexing = "end" => tokens = Expected

C11_Witness ==
    /\ lexing = "end"
    /\ Len(source.items) = 2
    /\ source.items[1].form = "apiN"
    /\ source.items[2].form = "trail"
    /\ tokens = Toks_x

HasSlashSlash(s) == \E i \in 1..(Len(s) - 1) : s[i] = "/" /\ s[i + 1] = "/"

\* C12: a string literal, a quote, characters other than quote and newline
\* (none included), a quote, is yielded as exactly one String token whose text
\* is the characters between the quotes, and the tokens after it are not
\* affected: a file of code and string literals lexes without a panic and,
\* when the tokenizer is exhausted, has yielded the tokens of its code with
\* one String token per literal.
C12_StringLiteral ==
    Kinds \subseteq {"code", "string"}
        => /\ lexing # "panic"
           /\ lexing = "end" => tokens = Expected

\* The part of C12 the code keeps: literals that are not empty and hold no "//".
C12_PlainLiterals ==
    (/\ Kinds \subseteq {"code", "string"}
     /\ \A i \in 1..Len(source.items) :
           source.items[i].kind = "string"
               => source.items[i].content # << >> /\ ~HasSlashSlash(source.items[i].content))
        => /\ lexing # "panic"
           /\ lexing = "end" => tokens = Expected

C12_Witness ==
    /\ lexing = "end"
    /\ Len(source.items) = 2
    /\ source.items[1].kind = "string"
    /\ source.items[1].content = <<"a", ";", "b">>
    /\ source.items[1].text[1][1] = "f"
    /\ source.items[2].kind = "string"
    /\ source.items[2].content = <<"l", "e", "t">>
    /\ tokens = Expected
    /\ Len(tokens) = 7

\* C13: an integer constant over 32767, a string literal that is not closed
\* on its line, a block comment that is never closed and a character that is
\* no part of any token each make tokenization fail; none is accepted: on a
\* file that holds one of them the tokenizer never runs to its end.
C13_LexicalErrors == "error" \in Kinds => lexing # "end"

\* The part of C13 the code keeps: the integer constant over 32767.
C13_IntTooLarge == "int" \in Forms => lexing # "end"

C13_Witness ==
    /\ "int" \in Forms
    /\ lexing = "panic"
    /\ tokens = << TKeyword(T_let), TIdentifier(T_x), TSymbol("=") >>

\* ------------------------------------------ jack_analyzer: parser.rs (parsers)
\* The parsers read a Peekable<Tokenizer>: here the tokens it has still to
\* yield.  Each returns what the code returns (Some(val), None, or a panic)
\* and the tokens left, since what a failed parser has consumed stays consumed.
K_class == <<"c", "l", "a", "s", "s">>
K_static == <<"s", "t", "a", "t", "i", "c">>
K_field == <<"f", "i", "e", "l", "d">>
K_int == <<"i", "n", "t">>
K_char == <<"c", "h", "a", "r">>
K_boolean == <<"b", "o", "o", "l", "e", "a", "n">>
K_constructor == <<"c", "o", "n", "s", "t", "r", "u", "c", "t", "o", "r">>
K_function == <<"f", "u", "n", "c", "t", "i", "o", "n">>
K_method == <<"m", "e", "t", "h", "o", "d">>
K_void == <<"v", "o", "i", "d">>
K_var == <<"v", "a", "r">>
K_if == <<"i", "f">>
K_else == <<"e", "l", "s", "e">>
K_while == <<"w", "h", "i", "l", "e">>
K_do == <<"d", "o">>
K_return == <<"r", "e", "t", "u", "r", "n">>
K_true == <<"t", "r", "u", "e">>
K_false == <<"f", "a", "l", "s", "e">>
K_null == <<"n", "u", "l", "l">>
K_this == <<"t", "h", "i", "s">>

POk(v, rest) == [st |-> "Some", val |-> v, rest |-> rest]
PNone(rest) == [st |-> "None", val |-> << >>, rest |-> rest]
PPanic == [st |-> "Panic", val |-> << >>, rest |-> << >>]

\* r, and then f on its value and the tokens left; None and a panic end it.
Then(r, f(_, _)) == IF r.st = "Some" THEN f(r.val, r.rest) ELSE r

\* Iterator::collect on a parser: next until it returns None.
RECURSIVE Collect(_, _, _)
Collect(next(_), ts, acc) ==
    LET r == next(ts)
    IN IF r.st = "Some" THEN Collect(next, r.rest, Append(acc, r.val))
       ELSE IF r.st = "Panic" THEN PPanic
       ELSE POk(acc, r.rest)

IsSym(token, ch) == token.kind = "Symbol" /\ token.text = <<ch>>
IsKw(token, w) == token.kind = "Keyword" /\ token.text = w

\* assert_symbol(&tokenizer.next()?, symbol)
ExpectSymbol(ts, symbol) ==
    IF ts = << >> THEN PNone(ts)
    ELSE IF IsSym(Head(ts), symbol) THEN POk(symbol, Tail(ts))
    ELSE PPanic

\* match tokenizer.next()? { Token::Identifier(v) => v, _ => return None }
NextIdentifier(ts) ==
    IF ts = << >> THEN PNone(ts)
    ELSE IF Head(ts).kind = "Identifier" THEN POk(Head(ts).text, Tail(ts))
    ELSE PNone(Tail(ts))

\* Type::new
TypeNew(token) ==
    IF IsKw(token, K_int) THEN Some([t |-> "Int", name |-> << >>])
    ELSE IF IsKw(token, K_char) THEN Some([t |-> "Char", name |-> << >>])
    ELSE IF IsKw(token, K_boolean) THEN Some([t |-> "Boolean", name |-> << >>])
    ELSE IF token.kind = "Identifier" THEN Some([t |-> "ClassName", name |-> token.text])
    ELSE None

\* let token = tokenizer.next()?; Type::new(&token)?
NextType(ts) ==
    IF ts = << >> THEN PNone(ts)
    ELSE IF TypeNew(Head(ts)).kind = "Some" THEN POk(TypeNew(Head(ts)).val, Tail(ts))
    ELSE PNone(Tail(ts))

\* SubroutineReturnType::new
SubroutineReturnTypeNew(token) ==
    IF IsKw(token, K_void) THEN Some([t |-> "Void", name |-> << >>])
    ELSE TypeNew(token)

\* ClassVarDecType::new
ClassVarDecTypeNew(v) ==
    IF v = K_static THEN Some("Static") ELSE IF v = K_field THEN Some("Field") ELSE None

\* SubroutineType::new
SubroutineTypeNew(v) ==
    IF v = K_constructor THEN Some("Constructor")
    ELSE IF v = K_function THEN Some("Function")
    ELSE IF v = K_method THEN Some("Method")
    ELSE None

\* ExtraVarNameParser::next
ExtraVarNameParserNext(ts) ==
    IF ts = << >> THEN PNone(ts)
    ELSE IF IsSym(Head(ts), ",") THEN NextIdentifier(Tail(ts))
    ELSE PNone(ts)

\* ExtraParameterParser::next
ExtraParameterParserNext(ts) ==
    IF ts = << >> THEN PNone(ts)
    ELSE IF IsSym(Head(ts), ",")
    THEN Then(NextType(Tail(ts)), LAMBDA var_type, r1 :
         Then(NextIdentifier(r1), LAMBDA v, r2 :
         POk([type |-> var_type, name |-> v], r2)))
    ELSE PNone(ts)

\* ClassVarDecParser::next
ClassVarDecParserNext(ts) ==
    IF ts = << >> THEN PNone(ts)
    ELSE IF Head(ts).kind = "Keyword"
    THEN IF ClassVarDecTypeNew(Head(ts).text).kind = "None" THEN PNone(ts)
         ELSE Then(NextType(Tail(ts)), LAMBDA var_type, r1 :
              Then(NextIdentifier(r1), LAMBDA var_name, r2 :
              Then(Collect(ExtraVarNameParserNext, r2, << >>), LAMBDA extra_var_names, r3 :
              Then(ExpectSymbol(r3, ";"), LAMBDA x, r4 :
              POk([dec_type |-> ClassVarDecTypeNew(Head(ts).text).val, var_type |-> var_type,
                   var_name |-> var_name, extra_var_names |-> extra_var_names], r4)))))
    ELSE PNone(ts)

\* VarDecParser::next
VarDecParserNext(ts) ==
    IF ts = << >> THEN PNone(ts)
    ELSE IF IsKw(Head(ts), K_var)
    THEN Then(NextType(Tail(ts)), LAMBDA var_type, r1 :
         Then(NextIdentifier(r1), LAMBDA var_name, r2 :
         Then(Collect(ExtraVarNameParserNext, r2, << >>), LAMBDA extra_var_names, r3 :
         Then(ExpectSymbol(r3, ";"), LAMBDA x, r4 :
         POk([var_type |-> var_type, var_name |-> var_name,
              extra_var_names |-> extra_var_names], r4)))))
    ELSE PNone(ts)

OpOf(ch) ==
    CASE ch = "+" -> "Plus" [] ch = "-" -> "Minus" [] ch = "*" -> "Multiply"
      [] ch = "/" -> "Divide" [] ch = "&" -> "And" [] ch = "|" -> "Or"
      [] ch = "<" -> "Lt" [] ch = ">" -> "Gt" [] ch = "=" -> "Eq"

OpSymbols == {"+", "-", "*", "/", "&", "|", "<", ">", "="}

RECURSIVE TermParse(_), ExpressionParse(_), ExpressionParseList(_),
          ExtraOpTermsParserNext(_), ExtraExpressionParserNext(_)

\* ExtraOpTermsParser::next
ExtraOpTermsParserNext(ts) ==
    IF ts = << >> THEN PNone(ts)
    ELSE IF Head(ts).kind = "Symbol" /\ Head(ts).text[1] \in OpSymbols
    THEN Then(TermParse(Tail(ts)), LAMBDA term, r1 :
         POk([op |-> OpOf(Head(ts).text[1]), term |-> term], r1))
    ELSE PNone(ts)

\* ExtraExpressionParser::next
ExtraExpressionParserNext(ts) ==
    IF ts = << >> THEN PNone(ts)
    ELSE IF IsSym(Head(ts), ",") THEN ExpressionParse(Tail(ts))
    ELSE PNone(ts)

\* Expression::parse
ExpressionParse(ts) ==
    Then(TermParse(ts), LAMBDA term, r1 :
    Then(Collect(ExtraOpTermsParserNext, r1, << >>), LAMBDA extra_op_terms, r2 :
    POk([term |-> term, extra_op_terms |-> extra_op_terms], r2)))

\* Expression::parse_list: it has no way to fail but the panic.
ExpressionParseList(ts) ==
    LET r == ExpressionParse(ts)
    IN IF r.st = "Panic" THEN PPanic
       ELSE IF r.st = "None" THEN POk(<< >>, r.rest)
       ELSE Collect(ExtraExpressionParserNext, r.rest, << r.val >>)

\* Option<T> in the syntax tree: no element, or the one.
Absent == << >>
Given(v) == << v >>

\* enum Term
IntTerm(n) == [t |-> "IntegerConstant", n |-> n]
StringTerm(text) == [t |-> "StringConstant", text |-> text]
KeywordTerm(k) == [t |-> "KeywordConstant", k |-> k]
VarTerm(name) == [t |-> "VarName", name |-> name]
IndexTerm(name, index) == [t |-> "IndexVar", name |-> name, index |-> index]
CallTerm(call) == [t |-> "Call", call |-> call]
ParenTerm(expression) == [t |-> "Expression", expression |-> expression]
UnaryTerm(unary, term) == [t |-> "WithUnary", unary |-> unary, term |-> term]

\* ( expressionList ), after a subroutine name
CallTail(caller, subroutine_name, ts) ==
    Then(ExpressionParseList(ts), LAMBDA expression_list, r1 :
    Then(ExpectSymbol(r1, ")"), LAMBDA x, r2 :
    POk([caller |-> caller, subroutine_name |-> subroutine_name,
         expression_list |-> expression_list], r2)))

\* . subroutineName ( expressionList ), after the caller and the dot
QualifiedCallTail(caller, ts) ==
    Then(NextIdentifier(ts), LAMBDA subroutine_name, r1 :
    Then(ExpectSymbol(r1, "("), LAMBDA x, r2 :
    CallTail(Given(caller), subroutine_name, r2)))

\* Term::parse
TermParse(ts) ==
    IF ts = << >> THEN PNone(ts)
    ELSE
      LET token == Head(ts)
          rest == Tail(ts)
      IN CASE token.kind = "Int" -> POk(IntTerm(token.val), rest)
           [] token.kind = "String" -> POk(StringTerm(token.text), rest)
           [] IsKw(token, K_true) -> POk(KeywordTerm("True"), rest)
           [] IsKw(token, K_false) -> POk(KeywordTerm("False"), rest)
           [] IsKw(token, K_null) -> POk(KeywordTerm("Null"), rest)
           [] IsKw(token, K_this) -> POk(KeywordTerm("This"), rest)
           [] token.kind = "Identifier" ->
                IF rest # << >> /\ IsSym(Head(rest), "[")
                THEN Then(ExpressionParse(Tail(rest)), LAMBDA expression, r1 :
                     Then(ExpectSymbol(r1, "]"), LAMBDA x, r2 :
                     POk(IndexTerm(token.text, expression), r2)))
                ELSE IF rest # << >> /\ IsSym(Head(rest), "(")
                THEN Then(CallTail(Absent, token.text, Tail(rest)), LAMBDA call, r1 :
                     POk(CallTerm(call), r1))
                ELSE IF rest # << >> /\ IsSym(Head(rest), ".")
                THEN Then(QualifiedCallTail(token.text, Tail(rest)), LAMBDA call, r1 :
                     POk(CallTerm(call), r1))
                ELSE POk(VarTerm(token.text), rest)
           [] IsSym(token, "(") ->
                Then(ExpressionParse(rest), LAMBDA expression, r1 :
                Then(ExpectSymbol(r1, ")"), LAMBDA x, r2 :
                POk(ParenTerm(expression), r2)))
           [] IsSym(token, "-") ->
                Then(TermParse(rest), LAMBDA term, r1 :
                POk(UnaryTerm("Negative", term), r1))
           [] IsSym(token, "~") ->
                Then(TermParse(rest), LAMBDA term, r1 :
                POk(UnaryTerm("Not", term), r1))
           [] OTHER -> PNone(ts)

\* SubroutineCall::parse
SubroutineCallParse(ts) ==
    IF ts = << >> THEN PNone(ts)
    ELSE IF Head(ts).kind = "Identifier"
    THEN LET rest == Tail(ts)
         IN IF rest = << >> THEN PNone(rest)
            ELSE IF IsSym(Head(rest), "(") THEN CallTail(Absent, Head(ts).text, Tail(rest))
            ELSE IF IsSym(Head(rest), ".") THEN QualifiedCallTail(Head(ts).text, Tail(rest))
            ELSE PNone(rest)
    ELSE PNone(Tail(ts))

\* Option<Expression> of a parser that may have panicked
Optional(r) == IF r.st = "Some" THEN Given(r.val) ELSE Absent

RECURSIVE StatementParserNext(_)

\* Statements::parse
StatementsParse(ts) == Collect(StatementParserNext, ts, << >>)

\* ( expression ) { statements }
Guarded(ts, f(_, _, _)) ==
    Then(ExpectSymbol(ts, "("), LAMBDA x1, r1 :
    Then(ExpressionParse(r1), LAMBDA expression, r2 :
    Then(ExpectSymbol(r2, ")"), LAMBDA x3, r3 :
    Then(ExpectSymbol(r3, "{"), LAMBDA x4, r4 :
    Then(StatementsParse(r4), LAMBDA statements, r5 :
    Then(ExpectSymbol(r5, "}"), LAMBDA x6, r6 :
    f(expression, statements, r6)))))))

\* StatementParser::next
StatementParserNext(ts) ==
    IF ts = << >> THEN PNone(ts)
    ELSE IF Head(ts).kind # "Keyword" THEN PNone(ts)
    ELSE
      LET v == Head(ts).text
          rest == Tail(ts)
      IN CASE v = T_let ->
                Then(NextIdentifier(rest), LAMBDA var_name, r1 :
                IF r1 = << >> THEN PNone(r1)
                ELSE
                  LET index == IF IsSym(Head(r1), "[")
                               THEN Then(ExpressionParse(Tail(r1)), LAMBDA expression, r2 :
                                    Then(ExpectSymbol(r2, "]"), LAMBDA x, r3 :
                                    POk(Given(expression), r3)))
                               ELSE POk(Absent, r1)
                  IN Then(index, LAMBDA index_expression, r4 :
                     Then(ExpectSymbol(r4, "="), LAMBDA x5, r5 :
                     Then(ExpressionParse(r5), LAMBDA expression, r6 :
                     Then(ExpectSymbol(r6, ";"), LAMBDA x7, r7 :
                     POk([s |-> "Let", var_name |-> var_name,
                          index_expression |-> index_expression,
                          expression |-> expression], r7))))))
           [] v = K_if ->
                Guarded(rest, LAMBDA expression, if_statements, r1 :
                IF r1 = << >> THEN PNone(r1)
                ELSE
                  LET else_part == IF IsKw(Head(r1), K_else)
                                   THEN Then(ExpectSymbol(Tail(r1), "{"), LAMBDA x2, r2 :
                                        Then(StatementsParse(r2), LAMBDA statements, r3 :
                                        Then(ExpectSymbol(r3, "}"), LAMBDA x4, r4 :
                                        POk(Given(statements), r4))))
                                   ELSE POk(Absent, r1)
                  IN Then(else_part, LAMBDA else_statements, r5 :
                     POk([s |-> "If", expression |-> expression,
                          if_statements |-> if_statements,
                          else_statements |-> else_statements], r5)))
           [] v = K_while ->
                Guarded(rest, LAMBDA expression, statements, r1 :
                POk([s |-> "While", expression |-> expression,
                     statements |-> statements], r1))
           [] v = K_do ->
                Then(SubroutineCallParse(rest), LAMBDA subroutine_call, r1 :
                Then(ExpectSymbol(r1, ";"), LAMBDA x, r2 :
                POk([s |-> "Do", call |-> subroutine_call], r2)))
           [] v = K_return ->
                LET e == ExpressionParse(rest)
                IN IF e.st = "Panic" THEN PPanic
                   ELSE Then(ExpectSymbol(e.rest, ";"), LAMBDA x, r1 :
                        POk([s |-> "Return", expression |-> Optional(e)], r1))
           [] OTHER -> PNone(ts)

\* The parameter list of SubroutineDecParser::next
ParameterList(ts) ==
    IF ts = << >> THEN PNone(ts)
    ELSE IF IsSym(Head(ts), ")") THEN POk(<< >>, ts)
    ELSE Then(NextType(ts), LAMBDA parameter_type, r1 :
         Then(NextIdentifier(r1), LAMBDA var_name, r2 :
         Collect(ExtraParameterParserNext, r2, << [type |-> parameter_type, name |-> var_name] >>)))

\* SubroutineDecParser::next
SubroutineDecParserNext(ts) ==
    IF ts = << >> THEN PNone(ts)
    ELSE IF Head(ts).kind = "Keyword"
    THEN IF SubroutineTypeNew(Head(ts).text).kind = "None" THEN PNone(ts)
         ELSE IF Tail(ts) = << >> THEN PNone(<< >>)
         ELSE IF SubroutineReturnTypeNew(Head(Tail(ts))).kind = "None" THEN PNone(Tail(Tail(ts)))
         ELSE Then(NextIdentifier(Tail(Tail(ts))), LAMBDA name, r1 :
              Then(ExpectSymbol(r1, "("), LAMBDA x2, r2 :
              Then(ParameterList(r2), LAMBDA parameters, r3 :
              Then(ExpectSymbol(r3, ")"), LAMBDA x4, r4 :
              Then(ExpectSymbol(r4, "{"), LAMBDA x5, r5 :
              Then(Collect(VarDecParserNext, r5, << >>), LAMBDA var_decs, r6 :
              Then(StatementsParse(r6), LAMBDA statements, r7 :
              Then(ExpectSymbol(r7, "}"), LAMBDA x8, r8 :
              POk([subroutine_type |-> SubroutineTypeNew(Head(ts).text).val,
                   return_type |-> SubroutineReturnTypeNew(Head(Tail(ts))).val,
                   name |-> name, parameters |-> parameters,
                   body |-> [var_decs |-> var_decs, statements |-> statements]], r8)))))))))
    ELSE PNone(ts)

\* ClassParser::next
ClassParserNext(ts) ==
    IF ts = << >> THEN PNone(ts)
    ELSE IF IsKw(Head(ts), K_class)
    THEN Then(NextIdentifier(Tail(ts)), LAMBDA name, r1 :
         Then(ExpectSymbol(r1, "{"), LAMBDA x2, r2 :
         Then(Collect(ClassVarDecParserNext, r2, << >>), LAMBDA class_var_decs, r3 :
         Then(Collect(SubroutineDecParserNext, r3, << >>), LAMBDA subroutine_decs, r4 :
         Then(ExpectSymbol(r4, "}"), LAMBDA x5, r5 :
         POk([name |-> name, class_var_decs |-> class_var_decs,
              subroutine_decs |-> subroutine_decs], r5))))))
    ELSE PNone(ts)

\* --------------------------------------------- jack_analyzer: utils.rs
\* Counter::new
CounterNew == [field_index |-> 0, static_index |-> 0, local_index |-> 0, argument_index |-> 0]

index_by_kind(counter, kind) ==
    CASE kind = "Argument" -> counter.argument_index
      [] kind = "Local" -> counter.local_index
      [] kind = "Static" -> counter.static_index
      [] kind = "Field" -> counter.field_index

increment_by_kind(counter, kind) ==
    CASE kind = "Argument" -> [counter EXCEPT !.argument_index = @ + 1]
      [] kind = "Local" -> [counter EXCEPT !.local_index = @ + 1]
      [] kind = "Static" -> [counter EXCEPT !.static_index = @ + 1]
      [] kind = "Field" -> [counter EXCEPT !.field_index = @ + 1]

\* SymbolTable::new
SymbolTableNew == [counter |-> CounterNew, symbols |-> << >>]

\* SymbolTable::push with a counter that skips an index at each push.
SymbolTablePush_Skipping(table, var_name, var_type, kind) ==
    [counter |-> increment_by_kind(increment_by_kind(table.counter, kind), kind),
     symbols |-> Append(table.symbols,
                        [var_name |-> var_name, var_type |-> var_type, kind |-> kind,
                         index |-> index_by_kind(table.counter, kind)])]

\* SymbolTable::push
SymbolTablePush(table, var_name, var_type, kind) ==
    [counter |-> increment_by_kind(table.counter, kind),
     symbols |-> Append(table.symbols,
                        [var_name |-> var_name, var_type |-> var_type, kind |-> kind,
                         index |-> index_by_kind(table.counter, kind)])]

\* SymbolTable::find_by: the first symbol of that name.
SymbolTableFindBy(table, name) ==
    LET at == { i \in 1..Len(table.symbols) : table.symbols[i].var_name = name }
    IN IF at = {} THEN None
       ELSE Some(table.symbols[CHOOSE i \in at : \A j \in at : i <= j])

\* SymbolTable::field_vars_count
field_vars_count(table) ==
    Len(SelectSeq(table.symbols, LAMBDA s : s.kind = "Field"))

\* Symbol::vm_memory_segment
vm_memory_segment(symbol) ==
    CASE symbol.kind = "Field" -> "this"
      [] symbol.kind = "Argument" -> "argument"
      [] symbol.kind = "Local" -> "local"
      [] symbol.kind = "Static" -> "static"

\* CharSet::new: the inserts, in the order of the source (a later insert of
\* a key replaces the earlier one).  The keys that are no printable ASCII
\* character, and the back quote, are written by their names.
CharSetInserts ==
    << <<" ", 32>>, <<"!", 33>>, <<"\"", 34>>, <<"#", 35>>, <<"$", 36>>, <<"%", 37>>,
       <<"&", 38>>, <<"'", 39>>, <<"(", 40>>, <<")", 41>>, <<"*", 42>>, <<"+", 43>>,
       <<",", 44>>, <<"-", 45>>, <<".", 46>>, <<"/", 47>>, <<"0", 48>>, <<"1", 49>>,
       <<"2", 50>>, <<"3", 51>>, <<"4", 52>>, <<"5", 53>>, <<"6", 54>>, <<"7", 55>>,
       <<"8", 56>>, <<"9", 57>>, <<":", 58>>, <<";", 59>>, <<"<", 60>>, <<"=", 61>>,
       <<">", 62>>, <<"?", 63>>, <<"@", 64>>, <<"A", 65>>, <<"B", 66>>, <<"C", 67>>,
       <<"D", 68>>, <<"E", 69>>, <<"F", 70>>, <<"G", 71>>, <<"H", 72>>, <<"I", 73>>,
       <<"J", 74>>, <<"K", 75>>, <<"L", 76>>, <<"M", 77>>, <<"N", 78>>, <<"O", 79>>,
       <<"P", 80>>, <<"Q", 81>>, <<"R", 82>>, <<"S", 83>>, <<"T", 84>>, <<"U", 85>>,
       <<"V", 86>>, <<"W", 87>>, <<"X", 88>>, <<"Y", 89>>, <<"Z", 90>>, <<"[", 91>>,
       <<"/", 92>>, <<"]", 93>>, <<"^", 94>>, <<"_", 95>>, <<"backQuote", 96>>, <<"a", 97>>,
       <<"b", 98>>, <<"c", 99>>, <<"d", 100>>, <<"e", 101>>, <<"f", 102>>, <<"g", 103>>,
       <<"h", 104>>, <<"i", 105>>, <<"j", 106>>, <<"k", 107>>, <<"l", 108>>, <<"m", 109>>,
       <<"n", 110>>, <<"o", 111>>, <<"p", 112>>, <<"q", 113>>, <<"r", 114>>, <<"s", 115>>,
       <<"t", 116>>, <<"u", 117>>, <<"v", 118>>, <<"w", 119>>, <<"x", 120>>, <<"y", 121>>,
       <<"z", 122>>, <<"{", 123>>, <<"|", 124>>, <<"}", 125>>, <<"~", 126>>, <<"DEL", 127>>,
       <<"newLine", 128>>, <<"backSpace", 129>>, <<"leftArrow", 130>>, <<"upArrow", 131>>, <<"rightArrow", 132>>, <<"downArrow", 133>> >>

\* CharSet::decode: HashMap::get, unwrapped.
HashMapGet(inserts, at) ==
    IF at = {} THEN Panic
    ELSE Some(inserts[CHOOSE i \in at : \A j \in at : j <= i][2])

Inserted(inserts, ch) == HashMapGet(inserts, { i \in 1..Len(inserts) : inserts[i][1] = ch })

CharSetDecode(ch) == Inserted(CharSetInserts, ch)

\* LabelGenerator::new
LabelGeneratorNew(class_name) == [class_name |-> class_name, counter |-> 0]

\* LabelGenerator::generate: the label (the counter is advanced by the caller's
\* next state).
LabelOf(generator) ==
    ToUppercase(generator.class_name) \o <<"_">> \o FmtI16(generator.counter)

\* ------------------------------------- jack_analyzer: parser.rs (VM writer)
\* A line of VM code is modelled by the Command the VM language makes of it.
VM_push(segment, value) == << Push(segment, value) >>
VM_pop(segment, idx) == << Pop(segment, idx) >>
VM_op(name) == << Arithmetic(name) >>
VM_call(function_name, n_args) == << Call(function_name, n_args) >>
VM_label(label) == << Label(label) >>
VM_goto(label) == << GoTo(label) >>
VM_ifgoto(label) == << IfGoTo(label) >>
VM_function(name, n_vars) == << Function(name, n_vars) >>

\* What a panic leaves in the place of the code it was to return.
Unwind == << [kind |-> "Panic", seg |-> "", op |-> "", name |-> NoSym, n |-> 0] >>

Panicked(code) == \E i \in 1..Len(code) : code[i].kind = "Panic"

Dotted(a, b) == a \o <<".">> \o b

N_this == K_this
N_Memory_alloc == <<"M", "e", "m", "o", "r", "y", ".", "a", "l", "l", "o", "c">>
N_String_new == <<"S", "t", "r", "i", "n", "g", ".", "n", "e", "w">>
N_String_appendChar == <<"S", "t", "r", "i", "n", "g", ".", "a", "p", "p", "e", "n", "d", "C", "h", "a", "r">>
N_Math_multiply == <<"M", "a", "t", "h", ".", "m", "u", "l", "t", "i", "p", "l", "y">>
N_Math_divide == <<"M", "a", "t", "h", ".", "d", "i", "v", "i", "d", "e">>

\* VM::new
VMNew(class_name) ==
    [class_table |-> SymbolTableNew, subroutine_table |-> SymbolTableNew,
     label_generator |-> LabelGeneratorNew(class_name), class_name |-> class_name]

\* VM::find_by with the class table searched first.
VMFindBy_ClassFirst(vm, name) ==
    IF SymbolTableFindBy(vm.class_table, name).kind = "Some"
    THEN SymbolTableFindBy(vm.class_table, name)
    ELSE SymbolTableFindBy(vm.subroutine_table, name)

\* VM::find_by
VMFindBy(vm, name) ==
    IF SymbolTableFindBy(vm.subroutine_table, name).kind = "Some"
    THEN SymbolTableFindBy(vm.subroutine_table, name)
    ELSE SymbolTableFindBy(vm.class_table, name)

\* The loop body of VM::compile_string: push the decoded character and append it.
AppendChar(decoded) ==
    IF decoded.kind = "Some"
    THEN VM_push("constant", decoded.val) \o VM_call(N_String_appendChar, 2)
    ELSE Unwind

\* VM::compile_string
compile_string(content) ==
    VM_push("constant", Len(content))
    \o VM_call(N_String_new, 1)
    \o Flatten([i \in 1..Len(content) |-> AppendChar(CharSetDecode(content[i]))])

\* VM::compile_operation
compile_operation(operation) ==
    CASE operation = "Plus" -> VM_op("add")
      [] operation = "Minus" -> VM_op("sub")
      [] operation = "Multiply" -> VM_call(N_Math_multiply, 2)
      [] operation = "Divide" -> VM_call(N_Math_divide, 2)
      [] operation = "And" -> VM_op("and")
      [] operation = "Or" -> VM_op("or")
      [] operation = "Lt" -> VM_op("lt")
      [] operation = "Gt" -> VM_op("gt")
      [] operation = "Eq" -> VM_op("eq")

\* VM::compile_unary_op
compile_unary_op(unary_operation) ==
    IF unary_operation = "Negative" THEN VM_op("neg") ELSE VM_op("not")

\* Push of a variable: find_by(name).unwrap(), then its segment and index.
PushVar(vm, name) ==
    IF VMFindBy(vm, name).kind = "Some"
    THEN VM_push(vm_memory_segment(VMFindBy(vm, name).val), VMFindBy(vm, name).val.index)
    ELSE Unwind

RECURSIVE compile_term(_, _), compile_expression(_, _), compile_subroutine_call(_, _)

\* VM::compile_expression with the operation before its term.
compile_expression_OpFirst(vm, expression) ==
    compile_term(vm, expression.term)
    \o Flatten([i \in 1..Len(expression.extra_op_terms) |->
                  compile_operation(expression.extra_op_terms[i].op)
                  \o compile_term(vm, expression.extra_op_terms[i].term)])

\* VM::compile_expression
compile_expression(vm, expression) ==
    compile_term(vm, expression.term)
    \o Flatten([i \in 1..Len(expression.extra_op_terms) |->
                  compile_term(vm, expression.extra_op_terms[i].term)
                  \o compile_operation(expression.extra_op_terms[i].op)])

\* The arguments of VM::compile_subroutine_call
compile_arguments(vm, expression_list) ==
    Flatten([i \in 1..Len(expression_list) |-> compile_expression(vm, expression_list[i])])

\* VM::compile_subroutine_call that does not count the object among the arguments.
compile_subroutine_call_NoReceiver(vm, subroutine_call) ==
    LET instructions == compile_arguments(vm, subroutine_call.expression_list)
        n == Len(subroutine_call.expression_list)
    IN IF subroutine_call.caller = Absent
       THEN VM_push("pointer", 0) \o instructions
            \o VM_call(Dotted(vm.class_name, subroutine_call.subroutine_name), n)
       ELSE LET caller == subroutine_call.caller[1]
                found == VMFindBy(vm, caller)
            IN IF found.kind = "Some"
               THEN IF found.val.var_type.t = "ClassName"
                    THEN VM_push(vm_memory_segment(found.val), found.val.index)
                         \o instructions
                         \o VM_call(Dotted(found.val.var_type.name,
                                           subroutine_call.subroutine_name), n)
                    ELSE Unwind
               ELSE instructions
                    \o VM_call(Dotted(caller, subroutine_call.subroutine_name), n)

\* VM::compile_subroutine_call; Symbol::class_name panics on a variable whose
\* type is no class.
compile_subroutine_call(vm, subroutine_call) ==
    LET instructions == compile_arguments(vm, subroutine_call.expression_list)
        n == Len(subroutine_call.expression_list)
    IN IF subroutine_call.caller = Absent
       THEN VM_push("pointer", 0) \o instructions
            \o VM_call(Dotted(vm.class_name, subroutine_call.subroutine_name), n + 1)
       ELSE LET caller == subroutine_call.caller[1]
                found == VMFindBy(vm, caller)
            IN IF found.kind = "Some"
               THEN IF found.val.var_type.t = "ClassName"
                    THEN VM_push(vm_memory_segment(found.val), found.val.index)
                         \o instructions
                         \o VM_call(Dotted(found.val.var_type.name,
                                           subroutine_call.subroutine_name), n + 1)
                    ELSE Unwind
               ELSE instructions
                    \o VM_call(Dotted(caller, subroutine_call.subroutine_name), n)

\* VM::compile_term
compile_term(vm, term) ==
    CASE term.t = "IntegerConstant" -> VM_push("constant", term.n)
      [] term.t = "VarName" -> PushVar(vm, term.name)
      [] term.t = "KeywordConstant" ->
           (CASE term.k = "Null" -> VM_push("constant", 0)
              [] term.k = "False" -> VM_push("constant", 0)
              [] term.k = "True" -> VM_push("constant", 1) \o VM_op("neg")
              [] term.k = "This" -> VM_push("pointer", 0))
      [] term.t = "StringConstant" -> compile_string(term.text)
      [] term.t = "Expression" -> compile_expression(vm, term.expression)
      [] term.t = "Call" -> compile_subroutine_call(vm, term.call)
      [] term.t = "WithUnary" -> compile_term(vm, term.term) \o compile_unary_op(term.unary)
      [] term.t = "IndexVar" ->
           PushVar(vm, term.name) \o compile_expression(vm, term.index) \o VM_op("add")
           \o VM_pop("pointer", 1) \o VM_push("that", 0)

\* VM::compile_let_statement with THAT set before the right-hand side is
\* evaluated.
compile_let_statement_ThatFirst(vm, statement) ==
    LET found == VMFindBy(vm, statement.var_name)
    IN IF found.kind = "None" THEN Unwind
       ELSE IF statement.index_expression # Absent
       THEN VM_push(vm_memory_segment(found.val), found.val.index)
            \o compile_expression(vm, statement.index_expression[1])
            \o VM_op("add")
            \o VM_pop("pointer", 1)
            \o compile_expression(vm, statement.expression)
            \o VM_pop("that", 0)
       ELSE compile_expression(vm, statement.expression)
            \o VM_pop(vm_memory_segment(found.val), found.val.index)

\* VM::compile_let_statement
compile_let_statement(vm, statement) ==
    LET found == VMFindBy(vm, statement.var_name)
    IN IF found.kind = "None" THEN Unwind
       ELSE IF statement.index_expression # Absent
       THEN VM_push(vm_memory_segment(found.val), found.val.index)
            \o compile_expression(vm, statement.index_expression[1])
            \o VM_op("add")
            \o compile_expression(vm, statement.expression)
            \o VM_pop("temp", 0) \o VM_pop("pointer", 1)
            \o VM_push("temp", 0) \o VM_pop("that", 0)
       ELSE compile_expression(vm, statement.expression)
            \o VM_pop(vm_memory_segment(found.val), found.val.index)

\* VM::generate_label: the generator after it (the label is LabelOf before).
Generated(vm) == [vm EXCEPT !.label_generator.counter = @ + 1]

\* The compile functions that take &mut self return the code and the VM.
Compiled(code, vm) == [code |-> code, vm |-> vm]

\* The instructions of VM::compile_if_statement without the `not`.
IfInstructions_NoNot(condition, l1, l2, if_code, else_code) ==
    condition \o VM_ifgoto(l1)
    \o if_code
    \o VM_goto(l2) \o VM_label(l1)
    \o else_code
    \o VM_label(l2)

\* The instructions VM::compile_if_statement gathers.
IfInstructions(condition, l1, l2, if_code, else_code) ==
    condition \o VM_op("not") \o VM_ifgoto(l1)
    \o if_code
    \o VM_goto(l2) \o VM_label(l1)
    \o else_code
    \o VM_label(l2)

\* The instructions VM::compile_while_statement gathers.
WhileInstructions(condition, l1, l2, body_code) ==
    VM_label(l1)
    \o condition \o VM_op("not") \o VM_ifgoto(l2)
    \o body_code
    \o VM_goto(l1) \o VM_label(l2)

RECURSIVE compile_statements(_, _, _), compile_statement(_, _, _)

\* VM::compile_statements
compile_statements(vm, statements, return_type) ==
    IF statements = << >> THEN Compiled(<< >>, vm)
    ELSE LET first == compile_statement(vm, Head(statements), return_type)
             others == compile_statements(first.vm, Tail(statements), return_type)
         IN Compiled(first.code \o others.code, others.vm)

\* One turn of the loop of VM::compile_statements, with compile_if_statement
\* and compile_while_statement.
compile_statement(vm, statement, return_type) ==
    CASE statement.s = "Do" ->
           Compiled(compile_subroutine_call(vm, statement.call) \o VM_pop("temp", 0), vm)
      [] statement.s = "If" ->
           LET l1 == LabelOf(vm.label_generator)
               l2 == LabelOf(Generated(vm).label_generator)
               then_part == compile_statements(Generated(Generated(vm)),
                                               statement.if_statements, return_type)
               else_part == IF statement.else_statements # Absent
                            THEN compile_statements(then_part.vm,
                                                    statement.else_statements[1], return_type)
                            ELSE Compiled(<< >>, then_part.vm)
           IN Compiled(IfInstructions(compile_expression(vm, statement.expression),
                                      l1, l2, then_part.code, else_part.code),
                       else_part.vm)
      [] statement.s = "While" ->
           LET l1 == LabelOf(vm.label_generator)
               l2 == LabelOf(Generated(vm).label_generator)
               body == compile_statements(Generated(Generated(vm)),
                                          statement.statements, return_type)
           IN Compiled(WhileInstructions(compile_expression(vm, statement.expression),
                                         l1, l2, body.code),
                       body.vm)
      [] statement.s = "Let" -> Compiled(compile_let_statement(vm, statement), vm)
      [] statement.s = "Return" ->
           Compiled((IF statement.expression # Absent
                     THEN compile_expression(vm, statement.expression[1])
                     ELSE IF return_type.t = "Void" THEN VM_push("constant", 0)
                     ELSE << >>)
                    \o << Return >>,
                    vm)

\* The symbols compile_subroutine gives the subroutine scope: this for a
\* method, then the parameters, then the local variables.
RECURSIVE PushNames(_, _, _, _)
PushNames(table, names, var_type, kind) ==
    IF names = << >> THEN table
    ELSE PushNames(SymbolTablePush(table, Head(names), var_type, kind),
                   Tail(names), var_type, kind)

RECURSIVE PushParameters(_, _)
PushParameters(table, parameters) ==
    IF parameters = << >> THEN table
    ELSE PushParameters(SymbolTablePush(table, Head(parameters).name,
                                        Head(parameters).type, "Argument"),
                        Tail(parameters))

\* var_decs of a subroutine, or of a class with the kind of each.
RECURSIVE PushVarDecs(_, _)
PushVarDecs(table, var_decs) ==
    IF var_decs = << >> THEN table
    ELSE LET d == Head(var_decs)
         IN PushVarDecs(PushNames(table, << d.var_name >> \o d.extra_var_names,
                                  d.var_type, "Local"),
                        Tail(var_decs))

NVars(var_decs) ==
    Len(Flatten([i \in 1..Len(var_decs) |->
                   << var_decs[i].var_name >> \o var_decs[i].extra_var_names]))

\* compile_subroutine, the symbol table of the subroutine
SubroutineTable(vm, subroutine_dec) ==
    LET t0 == IF subroutine_dec.subroutine_type = "Method"
              THEN SymbolTablePush(SymbolTableNew, N_this,
                                   [t |-> "ClassName", name |-> vm.class_name], "Argument")
              ELSE SymbolTableNew
    IN PushVarDecs(PushParameters(t0, subroutine_dec.parameters),
                   subroutine_dec.body.var_decs)

\* compile_subroutine, what follows the function line, with the prologue of
\* the method for the constructor as well.
Prologue_AlwaysMethod(vm, subroutine_dec) ==
    IF subroutine_dec.subroutine_type = "Function" THEN << >>
    ELSE VM_push("argument", 0) \o VM_pop("pointer", 0)

\* compile_subroutine, what follows the function line
Prologue(vm, subroutine_dec) ==
    CASE subroutine_dec.subroutine_type = "Constructor" ->
           VM_push("constant", field_vars_count(vm.class_table))
           \o VM_call(N_Memory_alloc, 1) \o VM_pop("pointer", 0)
      [] subroutine_dec.subroutine_type = "Method" ->
           VM_push("argument", 0) \o VM_pop("pointer", 0)
      [] subroutine_dec.subroutine_type = "Function" -> << >>

\* VM::compile_subroutine
compile_subroutine(vm, subroutine_dec) ==
    LET vm1 == [vm EXCEPT !.subroutine_table = SubroutineTable(vm, subroutine_dec)]
        body == compile_statements(vm1, subroutine_dec.body.statements,
                                   subroutine_dec.return_type)
    IN Compiled(VM_function(Dotted(vm.class_name, subroutine_dec.name),
                            NVars(subroutine_dec.body.var_decs))
                \o Prologue(vm1, subroutine_dec)
                \o body.code,
                body.vm)

\* compile_class, its first loop: one class variable declaration
ClassVarDecPush(table, var_dec) ==
    PushNames(table, << var_dec.var_name >> \o var_dec.extra_var_names, var_dec.var_type,
              var_dec.dec_type)


\* ------------------------------------------------ the Jack compiler alone
\* Subroutines of a class, statements of a body and operations of an
\* expression in the programs compiled.
MaxSubs == 2
MaxStmts == 2
MaxOps == 2

N_Main == <<"M", "a", "i", "n">>
N_Foo == <<"F", "o", "o">>
N_Out == <<"O", "u", "t">>
N_new == <<"n", "e", "w">>
N_run == <<"r", "u", "n">>
N_m == <<"m">>
N_g == <<"g">>
N_x == <<"x">>
N_y == <<"y">>
N_s == <<"s">>
N_p == <<"p">>
N_q == <<"q">>
N_a == <<"a">>
N_b == <<"b">>
N_i == <<"i">>

TyInt == [t |-> "Int", name |-> << >>]
TyFoo == [t |-> "ClassName", name |-> N_Foo]
TyVoid == [t |-> "Void", name |-> << >>]

\* ---- the tokens of a program, by the grammar of Jack
OpChar(op) == CHOOSE ch \in OpSymbols : OpOf(ch) = op

UnType(ty) ==
    CASE ty.t = "Int" -> << TKeyword(K_int) >>
      [] ty.t = "Char" -> << TKeyword(K_char) >>
      [] ty.t = "Boolean" -> << TKeyword(K_boolean) >>
      [] ty.t = "Void" -> << TKeyword(K_void) >>
      [] ty.t = "ClassName" -> << TIdentifier(ty.name) >>

\* The pieces, with a comma between two of them.
RECURSIVE Commas(_)
Commas(pieces) ==
    IF pieces = << >> THEN << >>
    ELSE IF Len(pieces) = 1 THEN pieces[1]
    ELSE pieces[1] \o << TSymbol(",") >> \o Commas(Tail(pieces))

UnNames(d) ==
    Commas([i \in 1..(1 + Len(d.extra_var_names)) |->
              << TIdentifier((<< d.var_name >> \o d.extra_var_names)[i]) >>])

UnClassVarDec(d) ==
    << TKeyword(IF d.dec_type = "Static" THEN K_static ELSE K_field) >>
    \o UnType(d.var_type) \o UnNames(d) \o << TSymbol(";") >>

UnVarDec(d) == << TKeyword(K_var) >> \o UnType(d.var_type) \o UnNames(d) \o << TSymbol(";") >>

RECURSIVE UnTerm(_), UnExpression(_), UnCall(_), UnStatements(_), UnStatement(_)

UnExpression(e) ==
    UnTerm(e.term)
    \o Flatten([i \in 1..Len(e.extra_op_terms) |->
                  << TSymbol(OpChar(e.extra_op_terms[i].op)) >>
                  \o UnTerm(e.extra_op_terms[i].term)])

UnCall(c) ==
    (IF c.caller # Absent THEN << TIdentifier(c.caller[1]), TSymbol(".") >> ELSE << >>)
    \o << TIdentifier(c.subroutine_name), TSymbol("(") >>
    \o Commas([i \in 1..Len(c.expression_list) |-> UnExpression(c.expression_list[i])])
    \o << TSymbol(")") >>

UnTerm(term) ==
    CASE term.t = "IntegerConstant" -> << TInt(term.n) >>
      [] term.t = "StringConstant" -> << TString(term.text) >>
      [] term.t = "KeywordConstant" ->
           << TKeyword(CASE term.k = "True" -> K_true [] term.k = "False" -> K_false
                         [] term.k = "Null" -> K_null [] term.k = "This" -> K_this) >>
      [] term.t = "VarName" -> << TIdentifier(term.name) >>
      [] term.t = "IndexVar" ->
           << TIdentifier(term.name), TSymbol("[") >> \o UnExpression(term.index)
           \o << TSymbol("]") >>
      [] term.t = "Call" -> UnCall(term.call)
      [] term.t = "Expression" ->
           << TSymbol("(") >> \o UnExpression(term.expression) \o << TSymbol(")") >>
      [] term.t = "WithUnary" ->
           << TSymbol(IF term.unary = "Negative" THEN "-" ELSE "~") >> \o UnTerm(term.term)

UnStatements(ss) == Flatten([i \in 1..Len(ss) |-> UnStatement(ss[i])])

UnBlock(ss) == << TSymbol("{") >> \o UnStatements(ss) \o << TSymbol("}") >>

UnStatement(st) ==
    CASE st.s = "Let" ->
           << TKeyword(T_let), TIdentifier(st.var_name) >>
           \o (IF st.index_expression # Absent
               THEN << TSymbol("[") >> \o UnExpression(st.index_expression[1]) \o << TSymbol("]") >>
               ELSE << >>)
           \o << TSymbol("=") >> \o UnExpression(st.expression) \o << TSymbol(";") >>
      [] st.s = "If" ->
           << TKeyword(K_if), TSymbol("(") >> \o UnExpression(st.expression) \o << TSymbol(")") >>
           \o UnBlock(st.if_statements)
           \o (IF st.else_statements # Absent
               THEN << TKeyword(K_else) >> \o UnBlock(st.else_statements[1])
               ELSE << >>)
      [] st.s = "While" ->
           << TKeyword(K_while), TSymbol("(") >> \o UnExpression(st.expression)
           \o << TSymbol(")") >> \o UnBlock(st.statements)
      [] st.s = "Do" -> << TKeyword(K_do) >> \o UnCall(st.call) \o << TSymbol(";") >>
      [] st.s = "Return" ->
           << TKeyword(K_return) >>
           \o (IF st.expression # Absent THEN UnExpression(st.expression[1]) ELSE << >>)
           \o << TSymbol(";") >>

UnSubroutineDec(d) ==
    << TKeyword(CASE d.subroutine_type = "Constructor" -> K_constructor
                  [] d.subroutine_type = "Function" -> K_function
                  [] d.subroutine_type = "Method" -> K_method) >>
    \o UnType(d.return_type)
    \o << TIdentifier(d.name), TSymbol("(") >>
    \o Commas([i \in 1..Len(d.parameters) |->
                 UnType(d.parameters[i].type) \o << TIdentifier(d.parameters[i].name) >>])
    \o << TSymbol(")"), TSymbol("{") >>
    \o Flatten([i \in 1..Len(d.body.var_decs) |-> UnVarDec(d.body.var_decs[i])])
    \o UnStatements(d.body.statements)
    \o << TSymbol("}") >>

UnClass(c) ==
    << TKeyword(K_class), TIdentifier(c.name), TSymbol("{") >>
    \o Flatten([i \in 1..Len(c.class_var_decs) |-> UnClassVarDec(c.class_var_decs[i])])
    \o Flatten([i \in 1..Len(c.subroutine_decs) |-> UnSubroutineDec(c.subroutine_decs[i])])
    \o << TSymbol("}") >>

\* ---- the programs compiled
ClassVarDec(dec_type, var_type, var_name, extra_var_names) ==
    [dec_type |-> dec_type, var_type |-> var_type, var_name |-> var_name,
     extra_var_names |-> extra_var_names]
VarDec(var_type, var_name, extra_var_names) ==
    [var_type |-> var_type, var_name |-> var_name, extra_var_names |-> extra_var_names]
Parameter(var_type, var_name) == [type |-> var_type, name |-> var_name]
SubroutineDec(subroutine_type, return_type, name, parameters, var_decs, statements) ==
    [subroutine_type |-> subroutine_type, return_type |-> return_type, name |-> name,
     parameters |-> parameters, body |-> [var_decs |-> var_decs, statements |-> statements]]
Class(name, class_var_decs, subroutine_decs) ==
    [name |-> name, class_var_decs |-> class_var_decs, subroutine_decs |-> subroutine_decs]
Expression(term, extra_op_terms) == [term |-> term, extra_op_terms |-> extra_op_terms]
OpTerm(op, term) == [op |-> op, term |-> term]
SubroutineCall(caller, subroutine_name, expression_list) ==
    [caller |-> caller, subroutine_name |-> subroutine_name, expression_list |-> expression_list]
LetStatement(var_name, index_expression, expression) ==
    [s |-> "Let", var_name |-> var_name, index_expression |-> index_expression,
     expression |-> expression]
IfStatement(expression, if_statements, else_statements) ==
    [s |-> "If", expression |-> expression, if_statements |-> if_statements,
     else_statements |-> else_statements]
WhileStatement(expression, statements) ==
    [s |-> "While", expression |-> expression, statements |-> statements]
DoStatement(call) == [s |-> "Do", call |-> call]
ReturnStatement(expression) == [s |-> "Return", expression |-> expression]
Just(term) == Expression(term, << >>)

\* Declarations: class variables of both kinds, in one declaration and in
\* several; parameters and local variables, some with the name of a field.
ClassDecs ==
    { << >>,
      << ClassVarDec("Field", TyInt, N_x, << N_y >>), ClassVarDec("Static", TyFoo, N_s, << >>) >>,
      << ClassVarDec("Static", TyInt, N_s, << >>), ClassVarDec("Field", TyFoo, N_p, << >>),
         ClassVarDec("Field", TyInt, N_x, << >>), ClassVarDec("Static", TyInt, N_b, << N_a >>) >> }

ParameterLists == { << >>, << Parameter(TyFoo, N_p), Parameter(TyInt, N_x) >> }

VarDecLists == { << >>, << VarDec(TyInt, N_i, << N_y >>), VarDec(TyFoo, N_q, << >>) >> }

SubName(subroutine_type) ==
    CASE subroutine_type = "Constructor" -> N_new
      [] subroutine_type = "Method" -> N_m
      [] subroutine_type = "Function" -> T_f

DeclSubs ==
    { SubroutineDec(ty, TyVoid, SubName(ty), ps, vs, << ReturnStatement(Absent) >>) :
        ty \in {"Constructor", "Method", "Function"}, ps \in ParameterLists, vs \in VarDecLists }

DeclClasses ==
    { Class(N_Main, ds, subs) :
        ds \in ClassDecs, subs \in UNION { [1..n -> DeclSubs] : n \in 1..MaxSubs } }

\* Statements: the class and the method they are compiled in.
StmtDecs ==
    << ClassVarDec("Field", TyInt, N_x, << N_y >>), ClassVarDec("Static", TyFoo, N_s, << >>),
       ClassVarDec("Field", TyFoo, N_p, << >>) >>

StmtClass(statements) ==
    Class(N_Main, StmtDecs,
          << SubroutineDec("Method", TyVoid, N_run,
                           << Parameter(TyFoo, N_a), Parameter(TyInt, N_b) >>,
                           << VarDec(TyFoo, N_q, << >>), VarDec(TyInt, N_i, << >>) >>,
                           statements) >>)

\* Terms without an operation, and the expressions made of them.
Terms ==
    { IntTerm(7), VarTerm(N_i), VarTerm(N_x),
      ParenTerm(Expression(VarTerm(N_b), << OpTerm("Minus", IntTerm(1)) >>)) }

Ops == {"Plus", "Multiply", "Lt"}

AllOps == { OpOf(ch) : ch \in OpSymbols }

OpTerms(ops) == { OpTerm(op, term) : op \in ops, term \in Terms }

Expressions ==
    { Expression(term, ots) :
        term \in Terms, ots \in UNION { [1..n -> OpTerms(Ops)] : n \in 0..MaxOps } }
    \cup { Expression(IntTerm(1), << ot >>) : ot \in OpTerms(AllOps) }
    \cup { Just(UnaryTerm(u, VarTerm(N_i))) : u \in {"Negative", "Not"} }
    \cup { Just(KeywordTerm(k)) : k \in {"True", "False", "Null", "This"} }
    \cup { Just(StringTerm(<<"a", " ", "b">>)),
           Just(IndexTerm(N_q, Just(VarTerm(N_i)))),
           Expression(UnaryTerm("Negative", IntTerm(1)),
                      << OpTerm("Minus", UnaryTerm("Negative", VarTerm(N_i))) >>) }

\* Calls: without a caller, on a variable of each kind, on a class.
Callers == { Absent, Given(N_p), Given(N_s), Given(N_a), Given(N_q), Given(N_Foo),
             Given(N_Out), Given(N_x), Given(N_i) }

ArgumentLists ==
    { << >>, << Just(IntTerm(7)) >>,
      << Expression(VarTerm(N_i), << OpTerm("Plus", IntTerm(1)) >>), Just(VarTerm(N_x)) >> }

JackCalls == { SubroutineCall(caller, N_g, args) : caller \in Callers, args \in ArgumentLists }

\* A call among the arguments of a call.
NestedCall ==
    SubroutineCall(Given(N_q), N_g,
                   << Just(CallTerm(SubroutineCall(Absent, N_m, << Just(IntTerm(7)) >>))) >>)

BodyStatements ==
    { DoStatement(SubroutineCall(Given(N_Out), N_g, << Just(VarTerm(N_i)) >>)),
      LetStatement(N_i, Absent, Expression(VarTerm(N_i), << OpTerm("Plus", IntTerm(1)) >>)),
      LetStatement(N_q, Given(Just(VarTerm(N_i))),
                   Just(IndexTerm(N_a, Just(VarTerm(N_b))))),
      IfStatement(Expression(VarTerm(N_i), << OpTerm("Lt", VarTerm(N_b)) >>),
                  << LetStatement(N_x, Absent, Just(IntTerm(1))) >>,
                  Given(<< LetStatement(N_x, Absent, Just(IntTerm(2))) >>)),
      IfStatement(Just(KeywordTerm("True")),
                  << WhileStatement(Just(VarTerm(N_b)), << >>) >>, Absent),
      WhileStatement(Expression(VarTerm(N_i), << OpTerm("Lt", VarTerm(N_b)) >>),
                     << LetStatement(N_i, Absent,
                                     Expression(VarTerm(N_i), << OpTerm("Plus", IntTerm(1)) >>)) >>),
      ReturnStatement(Absent) }

JackBodies ==
    UNION { [1..n -> BodyStatements] : n \in 1..MaxStmts }
    \cup { << DoStatement(c) >> : c \in JackCalls \cup {NestedCall} }
    \cup { << LetStatement(N_i, Absent, e) >> : e \in Expressions }

StmtClasses == { StmtClass(statements) : statements \in JackBodies }

\* Malformed classes: a well-formed one cut short, with a delimiter left
\* out, with a token replaced by an integer constant, with a token before
\* the class keyword, with a token after the closing brace.
BaseClass ==
    Class(N_Main, << ClassVarDec("Field", TyInt, N_x, << >>) >>,
          << SubroutineDec("Function", TyVoid, T_f, << >>, << >>,
                           << DoStatement(SubroutineCall(Given(N_Out), N_g, << Just(IntTerm(7)) >>)),
                              ReturnStatement(Absent) >>),
             SubroutineDec("Method", TyVoid, N_m, << >>, << >>,
                           << LetStatement(N_x, Absent, Just(IntTerm(1))),
                              ReturnStatement(Absent) >>) >>)

BaseTokens == UnClass(BaseClass)

Delimiters == {";", "(", ")", "{", "}"}

Program(kind, class, toks, how, at) ==
    [kind |-> kind, class |-> class, tokens |-> toks, how |-> how, at |-> at]

Without(s, k) == SubSeq(s, 1, k - 1) \o SubSeq(s, k + 1, Len(s))

Malformed ==
    { Program("malformed", BaseClass, SubSeq(BaseTokens, 1, k), "cut", k) :
        k \in 0..(Len(BaseTokens) - 1) }
    \cup { Program("malformed", BaseClass, Without(BaseTokens, k), "left out", k) :
             k \in { j \in 1..Len(BaseTokens) :
                       BaseTokens[j].kind = "Symbol" /\ BaseTokens[j].text[1] \in Delimiters } }
    \cup { Program("malformed", BaseClass, [BaseTokens EXCEPT ![k] = TInt(7)], "replaced", k) :
             k \in { j \in 1..Len(BaseTokens) : BaseTokens[j].kind # "Int" } }
    \cup { Program("malformed", BaseClass, << junk >> \o BaseTokens, "before", 0) :
             junk \in { TIdentifier(N_x), TSymbol(";") } }
    \cup { Program("malformed", BaseClass, BaseTokens \o << junk >>, "after", 0) :
             junk \in { TIdentifier(N_x), TSymbol("}") } }

\* Control flow: if with and without else, while, one inside the other, in
\* bodies of up to MaxStmts statements.
LessThan(a, b) == Expression(VarTerm(a), << OpTerm("Lt", VarTerm(b)) >>)
Increment(a) == LetStatement(a, Absent, Expression(VarTerm(a), << OpTerm("Plus", IntTerm(1)) >>))
Assign(a, n) == LetStatement(a, Absent, Just(IntTerm(n)))

ControlStatements ==
    { IfStatement(LessThan(N_i, N_b), << Assign(N_x, 1) >>, Given(<< Assign(N_x, 2) >>)),
      IfStatement(LessThan(N_i, N_b), << Assign(N_y, 1) >>, Absent),
      WhileStatement(LessThan(N_i, N_b), << Increment(N_i) >>),
      WhileStatement(LessThan(N_i, N_b),
                     << IfStatement(Expression(VarTerm(N_i), << OpTerm("Eq", IntTerm(0)) >>),
                                    << Assign(N_x, 7) >>, Given(<< Assign(N_y, 8) >>)),
                        Increment(N_i) >>),
      IfStatement(Expression(VarTerm(N_i), << OpTerm("Gt", VarTerm(N_b)) >>),
                  << WhileStatement(Expression(VarTerm(N_x), << OpTerm("Lt", IntTerm(0)) >>),
                                    << Increment(N_x) >>) >>,
                  Given(<< LetStatement(N_y, Absent, Just(VarTerm(N_i))) >>)) }

ControlBodies == UNION { [1..n -> ControlStatements] : n \in 1..MaxStmts }

ControlClasses == { StmtClass(statements) : statements \in ControlBodies }

\* Labels: two classes in one file, each with two methods that hold if and
\* while statements; the second class is Foo, or MAIN.
N_MAIN == <<"M", "A", "I", "N">>

LabelBodies ==
    { << WhileStatement(LessThan(N_i, N_b),
                        << IfStatement(LessThan(N_x, N_y), << Increment(N_x) >>, Absent),
                           Increment(N_i) >>) >>,
      << IfStatement(LessThan(N_i, N_b), << Increment(N_i) >>, Given(<< Increment(N_b) >>)) >> }

LabelClasses(name) ==
    { Class(name, StmtDecs,
            [k \in 1..2 |->
               SubroutineDec("Method", TyVoid, IF k = 1 THEN N_run ELSE N_m,
                             << Parameter(TyFoo, N_a), Parameter(TyInt, N_b) >>,
                             << VarDec(TyFoo, N_q, << >>), VarDec(TyInt, N_i, << >>) >>,
                             IF k = 1 THEN b1 ELSE b2)]) :
        b1 \in LabelBodies, b2 \in LabelBodies }

LabelPrograms ==
    { Program("labels", c1, UnClass(c1) \o UnClass(c2), "", 0) :
        c1 \in LabelClasses(N_Main), c2 \in LabelClasses(N_Foo) \cup LabelClasses(N_MAIN) }

\* Returns: return with and without a value, last in the body and inside an
\* if, in a method of each return type.
ReturnBodies ==
    { << ReturnStatement(Absent) >>,
      << ReturnStatement(Given(Just(IntTerm(7)))) >>,
      << ReturnStatement(Given(Expression(VarTerm(N_i), << OpTerm("Plus", VarTerm(N_x)) >>))) >>,
      << Increment(N_i), ReturnStatement(Given(Just(VarTerm(N_i)))) >>,
      << Increment(N_i), ReturnStatement(Absent) >>,
      << IfStatement(LessThan(N_i, N_b), << ReturnStatement(Absent) >>, Absent),
         ReturnStatement(Given(Just(VarTerm(N_x)))) >>,
      << WhileStatement(LessThan(N_i, N_b), << Increment(N_i) >>), ReturnStatement(Absent) >> }

ReturnClasses ==
    { Class(N_Main, StmtDecs,
            << SubroutineDec("Method", return_type, N_run,
                             << Parameter(TyFoo, N_a), Parameter(TyInt, N_b) >>,
                             << VarDec(TyFoo, N_q, << >>), VarDec(TyInt, N_i, << >>) >>,
                             statements) >>) :
        return_type \in {TyVoid, TyInt, TyFoo}, statements \in ReturnBodies }

ReturnPrograms == { Program("returns", c, UnClass(c), "", 0) : c \in ReturnClasses }

\* Arrays: let a[i] = rhs with the array a local or an argument, the index a
\* variable, a sum or an array element, and rhs without and with array
\* elements.
ArrayIndexes ==
    { Just(VarTerm(N_i)), Just(IntTerm(0)),
      Expression(VarTerm(N_i), << OpTerm("Plus", IntTerm(1)) >>),
      Expression(IndexTerm(N_a, Just(VarTerm(N_i))), << OpTerm("Minus", IntTerm(256)) >>) }

ArrayValues ==
    { Just(IntTerm(7)), Just(VarTerm(N_x)),
      Just(IndexTerm(N_a, Just(VarTerm(N_b)))),
      Just(IndexTerm(N_q, Just(VarTerm(N_i)))),
      Expression(IndexTerm(N_a, Just(VarTerm(N_b))),
                 << OpTerm("Plus", IndexTerm(N_q, Just(IntTerm(3)))) >>) }

ArrayClasses ==
    { StmtClass(<< LetStatement(array, Given(index), value) >>) :
        array \in {N_q, N_a}, index \in ArrayIndexes, value \in ArrayValues }

ArrayPrograms == { Program("arrays", c, UnClass(c), "", 0) : c \in ArrayClasses }

\* Strings: the characters of codes 32 to 126, in the order of their codes,
\* each but the double quote as a string constant of one character, and some
\* longer constants.
Printable ==
    << " ", "!", "\"", "#", "$", "%", "&", "'", "(", ")", "*", "+",
       ",", "-", ".", "/", "0", "1", "2", "3", "4", "5", "6", "7",
       "8", "9", ":", ";", "<", "=", ">", "?", "@", "A", "B", "C",
       "D", "E", "F", "G", "H", "I", "J", "K", "L", "M", "N", "O",
       "P", "Q", "R", "S", "T", "U", "V", "W", "X", "Y", "Z", "[",
       "\\", "]", "^", "_", "backQuote", "a", "b", "c", "d", "e", "f", "g",
       "h", "i", "j", "k", "l", "m", "n", "o", "p", "q", "r", "s",
       "t", "u", "v", "w", "x", "y", "z", "{", "|", "}", "~" >>

StringTexts ==
    { << Printable[k] >> : k \in { j \in 1..Len(Printable) : Printable[j] # "\"" } }
    \cup { <<"H", "i", "!">>, <<"a", "/", "b">>, <<"1", "\\", "2">> }

StringClasses ==
    { StmtClass(<< LetStatement(N_i, Absent, Just(StringTerm(text))) >>) : text \in StringTexts }

StringPrograms == { Program("strings", c, UnClass(c), "", 0) : c \in StringClasses }

\* Duplicates: a name declared twice in the class, in one declaration or in
\* two, and twice in a subroutine, as two locals or as a parameter and a
\* local.
DuplicateClassDecs ==
    { << ClassVarDec("Field", TyInt, N_x, << N_x >>) >>,
      << ClassVarDec("Field", TyInt, N_x, << N_y >>), ClassVarDec("Static", TyFoo, N_x, << >>) >>,
      << ClassVarDec("Static", TyInt, N_s, << >>), ClassVarDec("Field", TyInt, N_y, << >>) >> }

DuplicateVarDecs ==
    { << VarDec(TyInt, N_i, << N_i >>) >>,
      << VarDec(TyInt, N_i, << >>), VarDec(TyFoo, N_b, << >>) >>,
      << VarDec(TyInt, N_i, << >>), VarDec(TyFoo, N_q, << >>), VarDec(TyInt, N_i, << >>) >> }

DuplicateClasses ==
    { Class(N_Main, ds,
            << SubroutineDec(ty, TyVoid, N_run,
                             << Parameter(TyFoo, N_a), Parameter(TyInt, N_b) >>, vs,
                             << Assign(N_x, 1), Assign(N_i, 2), ReturnStatement(Absent) >>) >>) :
        ds \in DuplicateClassDecs, vs \in DuplicateVarDecs, ty \in {"Method", "Function"} }

DuplicatePrograms == { Program("duplicates", c, UnClass(c), "", 0) : c \in DuplicateClasses }

Programs ==
    LabelPrograms \cup ReturnPrograms \cup ArrayPrograms \cup StringPrograms
    \cup DuplicatePrograms \cup
    { Program("declarations", c, UnClass(c), "", 0) : c \in DeclClasses }
    \cup { Program("control", c, UnClass(c), "", 0) : c \in ControlClasses }
    \cup { Program("statements", c, UnClass(c), "", 0) : c \in StmtClasses }
    \cup { Program("statements", BaseClass, BaseTokens, "", 0) }
    \cup Malformed

NoClass == Class(<< >>, << >>, << >>)

\* VM::compile(file, output): Tokenizer::new(file)?.peekable(), ClassParser::new.
InitJack ==
    /\ RunIdle
    /\ UnitIdle
    /\ AsmIdle
    /\ TokIdle
    /\ VmpIdle
    /\ jprog \in Programs
    /\ jtoks = jprog.tokens
    /\ jstage = "next"
    /\ jclass = NoClass
    /\ jvm = VMNew(<< >>)
    /\ jcur = 0
    /\ jcode = << >>
    /\ jout = << >>

\* VM::compile, the head of its loop: ClassParser::next, and VM::new for the
\* class it yields; compile returns Ok(()) when it yields none.
ClassNext ==
    /\ jstage = "next"
    /\ LET r == ClassParserNext(jtoks)
       IN /\ jtoks' = r.rest
          /\ jstage' = CASE r.st = "Panic" -> "panic"
                         [] r.st = "None" -> "ok"
                         [] r.val.class_var_decs = << >> -> "subs"
                         [] OTHER -> "vars"
          /\ jclass' = IF r.st = "Some" THEN r.val ELSE jclass
          /\ jvm' = IF r.st = "Some" THEN VMNew(r.val.name) ELSE jvm
    /\ jcur' = 0
    /\ jcode' = << >>
    /\ UNCHANGED << jprog, jout >>

\* compile_class, one turn of its first loop.
CompileClassVarDec ==
    /\ jstage = "vars"
    /\ jvm' = [jvm EXCEPT !.class_table = ClassVarDecPush(@, jclass.class_var_decs[jcur + 1])]
    /\ jcur' = IF jcur + 1 = Len(jclass.class_var_decs) THEN 0 ELSE jcur + 1
    /\ jstage' = IF jcur + 1 = Len(jclass.class_var_decs) THEN "subs" ELSE "vars"
    /\ UNCHANGED << jprog, jtoks, jclass, jcode, jout >>

\* compile_class, one turn of its second loop: compile_subroutine.
CompileSubroutine ==
    /\ jstage = "subs"
    /\ jcur < Len(jclass.subroutine_decs)
    /\ LET r == compile_subroutine(jvm, jclass.subroutine_decs[jcur + 1])
       IN IF Panicked(r.code)
          THEN jstage' = "panic" /\ UNCHANGED << jvm, jcur, jcode >>
          ELSE /\ jvm' = r.vm
               /\ jcur' = jcur + 1
               /\ jcode' = jcode \o r.code
               /\ UNCHANGED jstage
    /\ UNCHANGED << jprog, jtoks, jclass, jout >>

\* VM::compile: write!(output, "{}", vm.compile_class(&class)).
WriteClass ==
    /\ jstage = "subs"
    /\ jcur = Len(jclass.subroutine_decs)
    /\ jout' = jout \o jcode
    /\ jstage' = "next"
    /\ UNCHANGED << jprog, jtoks, jclass, jvm, jcur, jcode >>

NextJack ==
    \/ (ClassNext /\ UNCHANGED << runVars, unitVars, asmVars, tokVars, vmpVars >>)
    \/ (CompileClassVarDec /\ UNCHANGED << runVars, unitVars, asmVars, tokVars, vmpVars >>)
    \/ (CompileSubroutine /\ UNCHANGED << runVars, unitVars, asmVars, tokVars, vmpVars >>)
    \/ (WriteClass /\ UNCHANGED << runVars, unitVars, asmVars, tokVars, vmpVars >>)

SpecJack == InitJack /\ [][NextJack]_vars

\* ------------------------------------------------------------------ C14

\* Number of symbols of that kind among the first n of a table.
KindCount(symbols, kind, n) ==
    Cardinality({ j \in 1..n : symbols[j].kind = kind })

Dense(table) ==
    \A i \in 1..Len(table.symbols) :
        table.symbols[i].index
            = KindCount(table.symbols, table.symbols[i].kind, i - 1)

\* Names a class declares with that kind, in its var declarations.
DeclaredCount(class, dec_type) ==
    Len(Flatten([i \in 1..Len(class.class_var_decs) |->
                   IF class.class_var_decs[i].dec_type = dec_type
                   THEN << class.class_var_decs[i].var_name >>
                        \o class.class_var_decs[i].extra_var_names
                   ELSE << >>]))

C14_Dense ==
    /\ Dense(jvm.class_table)
    /\ Dense(jvm.subroutine_table)
    /\ jstage = "subs" =>
         field_vars_count(jvm.class_table) = DeclaredCount(jclass, "Field")

C14_Kept ==
    jstage # "next" => IsPrefix(jvm.class_table.symbols, jvm'.class_table.symbols)

\* C14: in the class table and in the subroutine table the j-th symbol of a
\* kind has index j - 1 whatever was defined in between, a symbol once pushed
\* keeps its place and index, and field_vars_count is the number of names the
\* class declares as fields.
C14_DenseIndices == [] C14_Dense /\ [][C14_Kept]_vars

\* statics and fields declared in turn: the third static after two fields has
\* index 2, and a subroutine table holds arguments and locals.
C14_Witness ==
    /\ jstage = "subs"
    /\ \E i, j \in 1..Len(jvm.class_table.symbols) :
         /\ j < i
         /\ jvm.class_table.symbols[j].kind = "Field"
         /\ jvm.class_table.symbols[j].index = 1
         /\ jvm.class_table.symbols[i].kind = "Static"
         /\ jvm.class_table.symbols[i].index = 2
    /\ \E i, j \in 1..Len(jvm.subroutine_table.symbols) :
         /\ jvm.subroutine_table.symbols[i].kind = "Argument"
         /\ jvm.subroutine_table.symbols[i].index = 2
         /\ jvm.subroutine_table.symbols[j].kind = "Local"
         /\ jvm.subroutine_table.symbols[j].index = 2

\* ------------------------------------------------------------------ C15

\* The names a subroutine declares, in order, each with its type and kind:
\* this for a method, the parameters, the locals.
ScopeOfSubroutine(class, dec) ==
    (IF dec.subroutine_type = "Method"
     THEN << [name |-> N_this, type |-> [t |-> "ClassName", name |-> class.name],
              kind |-> "Argument"] >>
     ELSE << >>)
    \o [i \in 1..Len(dec.parameters) |->
          [name |-> dec.parameters[i].name, type |-> dec.parameters[i].type,
           kind |-> "Argument"]]
    \o Flatten([i \in 1..Len(dec.body.var_decs) |->
                  LET d == dec.body.var_decs[i]
                      names == << d.var_name >> \o d.extra_var_names
                  IN [k \in 1..Len(names) |->
                        [name |-> names[k], type |-> d.var_type, kind |-> "Local"]]])

\* The names a class declares, in order, each with its type and kind.
ScopeOfClass(class) ==
    Flatten([i \in 1..Len(class.class_var_decs) |->
               LET d == class.class_var_decs[i]
                   names == << d.var_name >> \o d.extra_var_names
               IN [k \in 1..Len(names) |->
                     [name |-> names[k], type |-> d.var_type, kind |-> d.dec_type]]])

Declares(scope, name) == \E i \in 1..Len(scope) : scope[i].name = name

\* The first declaration of the name in a scope, with its ordinal in its kind.
DeclarationIn(scope, name) ==
    LET i == CHOOSE k \in 1..Len(scope) :
                 scope[k].name = name /\ \A j \in 1..(k - 1) : scope[j].name # name
    IN [var_name |-> name, var_type |-> scope[i].type, kind |-> scope[i].kind,
        index |-> Cardinality({ j \in 1..(i - 1) : scope[j].kind = scope[i].kind })]

\* What a lookup is to give while compiling that subroutine of that class.
Resolution(class, dec, name) ==
    CASE Declares(ScopeOfSubroutine(class, dec), name) ->
           << DeclarationIn(ScopeOfSubroutine(class, dec), name) >>
      [] Declares(ScopeOfClass(class), name) ->
           << DeclarationIn(ScopeOfClass(class), name) >>
      [] OTHER -> << >>

Looked(r) == IF r.kind = "Some" THEN << r.val >> ELSE << >>

LookupNames == { N_this, N_p, N_x, N_y, N_i, N_q, N_s, N_a, N_b, N_g }

C15_Lookup ==
    (jstage = "subs" /\ jcur >= 1) =>
        \A name \in LookupNames :
            Looked(VMFindBy(jvm, name))
                = Resolution(jclass, jclass.subroutine_decs[jcur], name)

C15_ClassScopeKept ==
    jstage = "subs" => jvm'.class_table = jvm.class_table

\* C15: with the table of subroutine S of class C in place, find_by gives
\* the symbol S declares under the name (this of a method, a parameter, a
\* local, indices counted from 0 within S), else the static or field of C,
\* else nothing, never a symbol of the subroutine compiled before; and
\* compiling a subroutine leaves the class table as it was.
C15_ScopedResolution == [] C15_Lookup /\ [][C15_ClassScopeKept]_vars

\* the second subroutine of a class with fields x, y, p and static s: it has
\* parameters p, x and no locals, the first one declared locals i, y, q.
C15_Witness ==
    /\ jstage = "subs"
    /\ jcur = 2
    /\ jclass.subroutine_decs[1].body.var_decs # << >>
    /\ jclass.subroutine_decs[1].subroutine_type = "Method"
    /\ jclass.subroutine_decs[2].body.var_decs = << >>
    /\ jclass.subroutine_decs[2].subroutine_type = "Function"
    /\ VMFindBy(jvm, N_x).kind = "Some" /\ VMFindBy(jvm, N_x).val.kind = "Argument"
    /\ VMFindBy(jvm, N_x).val.index = 1
    /\ VMFindBy(jvm, N_y).kind = "Some" /\ VMFindBy(jvm, N_y).val.kind = "Field"
    /\ VMFindBy(jvm, N_s).kind = "Some" /\ VMFindBy(jvm, N_s).val.kind = "Static"
    /\ VMFindBy(jvm, N_i).kind = "None"
    /\ VMFindBy(jvm, N_this).kind = "None"

\* ------------------------------------------------------------------ C16

\* The lines compile_subroutine is to emit before the body of a subroutine
\* of that class.
HeadOfSubroutine(class, dec) ==
    LET scope == ScopeOfSubroutine(class, dec)
    IN VM_function(Dotted(class.name, dec.name),
                   Cardinality({ i \in 1..Len(scope) : scope[i].kind = "Local" }))
       \o (CASE dec.subroutine_type = "Method" ->
                  VM_push("argument", 0) \o VM_pop("pointer", 0)
             [] dec.subroutine_type = "Constructor" ->
                  VM_push("constant", DeclaredCount(class, "Field"))
                  \o VM_call(N_Memory_alloc, 1) \o VM_pop("pointer", 0)
             [] dec.subroutine_type = "Function" -> << >>)

C16_Step ==
    (jstage = "subs" /\ jcur' = jcur + 1) =>
        LET dec == jclass.subroutine_decs[jcur + 1]
            code == SubSeq(jcode', Len(jcode) + 1, Len(jcode'))
            head == HeadOfSubroutine(jclass, dec)
            first == IF dec.subroutine_type = "Method" THEN 1 ELSE 0
            vm1 == [jvm EXCEPT !.subroutine_table = jvm'.subroutine_table]
        IN /\ IsPrefix(head, code)
           /\ SubSeq(code, Len(head) + 1, Len(code))
                = compile_statements(vm1, dec.body.statements, dec.return_type).code
           /\ \A j \in 1..Len(dec.parameters) :
                LET r == SymbolTableFindBy(jvm'.subroutine_table, dec.parameters[j].name)
                IN /\ r.kind = "Some"
                   /\ r.val.kind = "Argument"
                   /\ r.val.index = first + j - 1
           /\ dec.subroutine_type = "Method" =>
                LET r == SymbolTableFindBy(jvm'.subroutine_table, N_this)
                IN r.kind = "Some" /\ r.val.kind = "Argument" /\ r.val.index = 0

\* C16: the code of a subroutine starts with function Class.name nLocals,
\* nLocals the number of names in its var declarations; a method goes on
\* with push argument 0, pop pointer 0 and has this at argument 0 and its
\* j-th parameter at argument j; a constructor goes on with push constant F,
\* call Memory.alloc 1, pop pointer 0, F the number of fields of the class,
\* and has its j-th parameter at argument j - 1; a function has its j-th
\* parameter at argument j - 1 and goes straight on with its body.
C16_Prologue == [][C16_Step]_vars

\* a constructor with three locals in a class of two fields and three
\* statics, then a method with two parameters, both compiled.
C16_Witness ==
    /\ jstage = "subs"
    /\ jcur = 2
    /\ jclass.subroutine_decs[1].subroutine_type = "Constructor"
    /\ jclass.subroutine_decs[2].subroutine_type = "Method"
    /\ Len(jclass.subroutine_decs[2].parameters) = 2
    /\ jcode[1].kind = "Function" /\ jcode[1].n = 3
    /\ jcode[2] = VM_push("constant", 2)[1]
    /\ field_vars_count(jvm.class_table) = 2
    /\ Len(jvm.class_table.symbols) = 5
    /\ SymbolTableFindBy(jvm.subroutine_table, N_x).val.index = 2

\* ------------------------------------------------------------------ C17

SegmentOfKind(kind) ==
    CASE kind = "Field" -> "this"
      [] kind = "Static" -> "static"
      [] kind = "Local" -> "local"
      [] kind = "Argument" -> "argument"

\* The code a call is to compile to within that subroutine of that class,
\* args being the code of its argument expressions in order.
CallConvention(class, dec, call, args) ==
    LET n == Len(call.expression_list)
    IN IF call.caller = Absent
       THEN VM_push("pointer", 0) \o args
            \o VM_call(Dotted(class.name, call.subroutine_name), n + 1)
       ELSE LET X == call.caller[1]
                var == Resolution(class, dec, X)
            IN IF var # << >>
               THEN VM_push(SegmentOfKind(var[1].kind), var[1].index) \o args
                    \o VM_call(Dotted(var[1].var_type.name, call.subroutine_name), n + 1)
               ELSE args \o VM_call(Dotted(X, call.subroutine_name), n)

\* The caller is no variable, or a variable whose declared type is a class.
ReceiverHasClass(class, dec, call) ==
    \/ call.caller = Absent
    \/ Resolution(class, dec, call.caller[1]) = << >>
    \/ Resolution(class, dec, call.caller[1])[1].var_type.t = "ClassName"

\* The one do statement a method consists of, once the method is compiled.
DoCompiled ==
    /\ jprog.kind = "statements"
    /\ jstage = "subs"
    /\ jcur = 1
    /\ Len(jclass.subroutine_decs[1].body.statements) = 1
    /\ jclass.subroutine_decs[1].body.statements[1].s = "Do"

SegValue(seg, n) ==
    CASE seg = "constant" -> n
      [] seg = "local" -> 4 + n
      [] seg = "argument" -> n
      [] seg = "this" -> -3 - n
      [] seg = "static" -> 11 + n
      [] seg = "pointer" -> 3000 + n
      [] OTHER -> 0

\* Division rounding towards zero.
DivI16(x, y) ==
    IF y = 0 THEN 0
    ELSE LET ax == IF x < 0 THEN -x ELSE x
             ay == IF y < 0 THEN -y ELSE y
             q == ax \div ay
         IN ToI16(IF (x < 0) = (y < 0) THEN q ELSE -q)

VmTruth(b) == IF b THEN -1 ELSE 0

VmBinary(op, x, y) ==
    CASE op = "add" -> ToI16(x + y)
      [] op = "sub" -> ToI16(x - y)
      [] op = "and" -> ToI16(BitAndU(ToU16(x), ToU16(y), 15))
      [] op = "or" -> OrI16(x, y)
      [] op = "eq" -> VmTruth(x = y)
      [] op = "gt" -> VmTruth(x > y)
      [] op = "lt" -> VmTruth(x < y)

VmUnary(op, y) == IF op = "neg" THEN ToI16(-y) ELSE ToI16(NotU(ToU16(y)))

\* The stack after the lines are run on it, and whether every line found the
\* words it takes; a call of a function other than Math.multiply and
\* Math.divide takes its arguments and leaves one word.
RECURSIVE StackRun(_, _)
StackRun(code, stack) ==
    IF code = << >> THEN [ok |-> TRUE, stack |-> stack]
    ELSE LET c == Head(code)
             d == Len(stack)
             takes == CASE c.kind = "Push" -> 0
                        [] c.kind = "Pop" -> 1
                        [] c.kind = "Arithmetic" -> IF c.op \in {"neg", "not"} THEN 1 ELSE 2
                        [] c.kind = "Call" -> c.n
                        [] OTHER -> d + 1
             left == SubSeq(stack, 1, d - takes)
         IN IF d < takes THEN [ok |-> FALSE, stack |-> stack]
            ELSE StackRun(Tail(code),
                   CASE c.kind = "Push" -> Append(left, SegValue(c.seg, c.n))
                     [] c.kind = "Pop" -> left
                     [] c.kind = "Arithmetic" /\ takes = 1 ->
                          Append(left, VmUnary(c.op, stack[d]))
                     [] c.kind = "Arithmetic" /\ takes = 2 ->
                          Append(left, VmBinary(c.op, stack[d - 1], stack[d]))
                     [] c.kind = "Call" ->
                          Append(left, CASE c.name = N_Math_multiply ->
                                              ToI16(stack[d - 1] * stack[d])
                                         [] c.name = N_Math_divide ->
                                              DivI16(stack[d - 1], stack[d])
                                         [] OTHER -> 0))

\* The value of a Jack operation on two words.
OpValue(op, x, y) ==
    CASE op = "Plus" -> ToI16(x + y)
      [] op = "Minus" -> ToI16(x - y)
      [] op = "Multiply" -> ToI16(x * y)
      [] op = "Divide" -> DivI16(x, y)
      [] op = "And" -> ToI16(BitAndU(ToU16(x), ToU16(y), 15))
      [] op = "Or" -> OrI16(x, y)
      [] op = "Lt" -> VmTruth(x < y)
      [] op = "Gt" -> VmTruth(x > y)
      [] op = "Eq" -> VmTruth(x = y)

\* Terms whose value is given by the constants and variables alone.
RECURSIVE PlainTerm(_)
PlainTerm(term) ==
    CASE term.t \in {"IntegerConstant", "VarName", "KeywordConstant"} -> TRUE
      [] term.t = "WithUnary" -> PlainTerm(term.term)
      [] term.t = "Expression" ->
           /\ PlainTerm(term.expression.term)
           /\ \A i \in 1..Len(term.expression.extra_op_terms) :
                PlainTerm(term.expression.extra_op_terms[i].term)
      [] OTHER -> FALSE

PlainExpression(expression) == PlainTerm(ParenTerm(expression))

\* t0 op1 t1 ... opm tm read as (((t0 op1 t1) op2 t2) ... opm tm).
RECURSIVE TermValue(_, _, _), LeftToRight(_, _, _, _, _)
TermValue(class, dec, term) ==
    CASE term.t = "IntegerConstant" -> term.n
      [] term.t = "VarName" ->
           LET var == Resolution(class, dec, term.name)[1]
           IN SegValue(SegmentOfKind(var.kind), var.index)
      [] term.t = "KeywordConstant" ->
           (CASE term.k = "True" -> -1
              [] term.k = "This" -> SegValue("pointer", 0)
              [] OTHER -> 0)
      [] term.t = "WithUnary" ->
           IF term.unary = "Negative" THEN ToI16(-TermValue(class, dec, term.term))
           ELSE ToI16(-TermValue(class, dec, term.term) - 1)
      [] term.t = "Expression" ->
           LeftToRight(class, dec, TermValue(class, dec, term.expression.term),
                       term.expression.extra_op_terms, 1)

LeftToRight(class, dec, value, op_terms, k) ==
    IF k > Len(op_terms) THEN value
    ELSE LeftToRight(class, dec,
                     OpValue(op_terms[k].op, value, TermValue(class, dec, op_terms[k].term)),
                     op_terms, k + 1)

\* The method consists of let i = expression; and is compiled.
LetCompiled ==
    /\ jprog.kind = "statements"
    /\ jstage = "subs"
    /\ jcur = 1
    /\ Len(jclass.subroutine_decs[1].body.statements) = 1
    /\ jclass.subroutine_decs[1].body.statements[1].s = "Let"
    /\ jclass.subroutine_decs[1].body.statements[1].index_expression = Absent

\* C18: the parser gives back the head term and the (op, term) pairs of an
\* expression in the order of the source; the code of the expression is the
\* code of t0, then for each pair the code of its term followed by its
\* operation; run on a stack it leaves one more word and never takes one it
\* did not push, and that word is (((t0 op1 t1) op2 t2) ... opm tm).
C18_LeftToRight ==
    /\ (jprog.kind \in {"statements", "declarations"} /\ jstage \in {"vars", "subs"}) =>
         jclass = jprog.class
    /\ LetCompiled =>
         LET dec == jclass.subroutine_decs[1]
             e == dec.body.statements[1].expression
             head == HeadOfSubroutine(jclass, dec)
             code == SubSeq(jcode, Len(head) + 1, Len(jcode) - 1)
             vm1 == [jvm EXCEPT !.label_generator = LabelGeneratorNew(jclass.name)]
         IN /\ jcode[Len(jcode)] = VM_pop("local", 1)[1]
            /\ code = compile_term(vm1, e.term)
                      \o Flatten([i \in 1..Len(e.extra_op_terms) |->
                                    compile_term(vm1, e.extra_op_terms[i].term)
                                    \o compile_operation(e.extra_op_terms[i].op)])
            /\ StackRun(code, << >>).ok
            /\ Len(StackRun(code, << >>).stack) = 1
            /\ PlainExpression(e) =>
                 StackRun(code, << >>).stack[1] = TermValue(jclass, dec, ParenTerm(e))

\* let i = 7 + i * x; compiled: push constant 7, push local 1, add,
\* push this 0, call Math.multiply 2, giving (7 + 5) * -3.
C18_Witness ==
    /\ LetCompiled
    /\ jclass.subroutine_decs[1].body.statements[1].expression
         = Expression(IntTerm(7), << OpTerm("Plus", VarTerm(N_i)),
                                     OpTerm("Multiply", VarTerm(N_x)) >>)
    /\ SubSeq(jcode, 4, 8)
         = VM_push("constant", 7) \o VM_push("local", 1) \o VM_op("add")
           \o VM_push("this", 0) \o VM_call(N_Math_multiply, 2)
    /\ StackRun(SubSeq(jcode, 4, 8), << >>).stack = << -36 >>

\* ------------------------------------------------------------------ C19

\* C19: when the tokens do not form one well-formed class, VM::compile does
\* not return Ok(()).
C19_FailFast == jprog.kind = "malformed" => jstage # "ok"

\* What holds: a token in place of another, or a delimiter left out, after
\* the class keyword, makes compile panic or stop with nothing written for
\* the class.
C19_NothingPartial ==
    (jprog.kind = "malformed" /\ jprog.how \in {"cut", "left out", "replaced"}) =>
        jout = << >>

\* the class cut short before its closing brace: compile returns Ok(()) and
\* nothing was written.
C19_Witness ==
    /\ jprog.kind = "malformed"
    /\ jprog.how = "cut"
    /\ jprog.at = Len(BaseTokens) - 1
    /\ jstage = "ok"
    /\ jout = << >>

\* ------------------------------------------ vmtranslator: parser.rs (the text)

\* str::split_whitespace
RECURSIVE SplitWhitespace(_)
SplitWhitespace(s) ==
    LET t == TrimStart(s)
        n == IF \E i \in 1..Len(t) : t[i] \in Whitespace
             THEN (CHOOSE i \in 1..Len(t) :
                      t[i] \in Whitespace /\ \A j \in 1..(i - 1) : t[j] \notin Whitespace) - 1
             ELSE Len(t)
    IN IF t = << >> THEN << >>
       ELSE << SubSeq(t, 1, n) >> \o SplitWhitespace(SubSeq(t, n + 1, Len(t)))

\* The operators line_to_command knows.
OperatorWords ==
    { << <<"a", "d", "d">>, "add" >>,
      << <<"s", "u", "b">>, "sub" >>,
      << <<"n", "e", "g">>, "neg" >>,
      << <<"e", "q">>, "eq" >>,
      << <<"g", "t">>, "gt" >>,
      << <<"l", "t">>, "lt" >>,
      << <<"a", "n", "d">>, "and" >>,
      << <<"o", "r">>, "or" >>,
      << <<"n", "o", "t">>, "not" >> }

\* subcommand_to_segment
SegmentWords ==
    { << <<"a", "r", "g", "u", "m", "e", "n", "t">>, "argument" >>,
      << <<"l", "o", "c", "a", "l">>, "local" >>,
      << <<"s", "t", "a", "t", "i", "c">>, "static" >>,
      << <<"t", "h", "i", "s">>, "this" >>,
      << <<"t", "h", "a", "t">>, "that" >>,
      << <<"c", "o", "n", "s", "t", "a", "n", "t">>, "constant" >>,
      << <<"p", "o", "i", "n", "t", "e", "r">>, "pointer" >>,
      << <<"t", "e", "m", "p">>, "temp" >> }

subcommand_to_segment(subcommand) ==
    IF \E p \in SegmentWords : p[1] = subcommand
    THEN Some((CHOOSE p \in SegmentWords : p[1] = subcommand)[2])
    ELSE None

W_push == <<"p", "u", "s", "h">>
W_pop == <<"p", "o", "p">>
W_label == <<"l", "a", "b", "e", "l">>
W_goto == <<"g", "o", "t", "o">>
W_if_goto == <<"i", "f", "-", "g", "o", "t", "o">>
W_function == <<"f", "u", "n", "c", "t", "i", "o", "n">>
W_call == <<"c", "a", "l", "l">>
W_return == <<"r", "e", "t", "u", "r", "n">>

\* line_to_command
line_to_command(line) ==
    LET words == SplitWhitespace(Trim(BeforeLineComment(line)))
        n == Len(words)
        first == words[1]
    IN IF n = 0 THEN None
       ELSE CASE \E p \in OperatorWords : p[1] = first ->
                   Some(Arithmetic((CHOOSE p \in OperatorWords : p[1] = first)[2]))
              [] first \in {W_push, W_pop} ->
                   IF n < 2 THEN None
                   ELSE IF subcommand_to_segment(words[2]).kind = "None" THEN None
                   ELSE IF n < 3 THEN None
                   ELSE IF ~ParseI16(words[3]).ok THEN None
                   ELSE IF first = W_push
                        THEN Some(Push(subcommand_to_segment(words[2]).val,
                                       ParseI16(words[3]).val))
                        ELSE Some(Pop(subcommand_to_segment(words[2]).val,
                                      ParseI16(words[3]).val))
              [] first \in {W_label, W_goto, W_if_goto} ->
                   IF n < 2 THEN None
                   ELSE IF first = W_label THEN Some(Label(words[2]))
                   ELSE IF first = W_goto THEN Some(GoTo(words[2]))
                   ELSE Some(IfGoTo(words[2]))
              [] first \in {W_function, W_call} ->
                   IF n < 3 THEN None
                   ELSE IF ~ParseI16(words[3]).ok THEN None
                   ELSE IF first = W_function
                        THEN Some(Function(words[2], ParseI16(words[3]).val))
                        ELSE Some(Call(words[2], ParseI16(words[3]).val))
              [] first = W_return -> Some(Return)
              [] OTHER -> None

\* Parser::next: the lines left, and the command (or None at the end).
RECURSIVE ParserNext(_)
ParserNext(lines) ==
    IF lines = << >> THEN [lines |-> << >>, command |-> None]
    ELSE IF line_to_command(Head(lines)).kind = "Some"
         THEN [lines |-> Tail(lines), command |-> line_to_command(Head(lines))]
         ELSE ParserNext(Tail(lines))

\* ------------------------------------------ the VM parser alone

MaxLines == 3

\* A line of a .vm file: what it is, its text, the command it stands for.
VmLine(kind, text, expect) == [kind |-> kind, text |-> text, expect |-> expect]

ValidLines ==
    { VmLine("valid", <<"p", "u", "s", "h", " ", "c", "o", "n", "s", "t", "a", "n", "t", " ", "7">>,
             << Push("constant", 7) >>),
      VmLine("valid", <<" ", " ", "p", "o", "p", " ", "l", "o", "c", "a", "l", " ", "2", " ", " ", "/", "/", " ", "c">>,
             << Pop("local", 2) >>),
      VmLine("valid", <<"a", "d", "d">>,
             << Arithmetic("add") >>),
      VmLine("valid", <<"c", "a", "l", "l", " ", "f", " ", "2">>,
             << Call(<<"f">>, 2) >>),
      VmLine("valid", <<"\t", "i", "f", "-", "g", "o", "t", "o", " ", "L", "/", "/", "c">>,
             << IfGoTo(<<"L">>) >>) }

BlankLines ==
    { VmLine("blank", << >>, << >>),
      VmLine("blank", <<"/", "/", " ", "c">>, << >>),
      VmLine("blank", <<" ", "\t", " ">>, << >>) }

\* Lines that are no command: an unknown mnemonic, an unknown segment, a
\* missing operand, an index that does not fit i16.
InvalidLines ==
    { VmLine("invalid", <<"p", "s", "h", " ", "c", "o", "n", "s", "t", "a", "n", "t", " ", "7">>, << >>),
      VmLine("invalid", <<"p", "u", "s", "h", " ", "f", "o", "o", " ", "1">>, << >>),
      VmLine("invalid", <<"p", "u", "s", "h", " ", "c", "o", "n", "s", "t", "a", "n", "t">>, << >>),
      VmLine("invalid", <<"p", "o", "p", " ", "l", "o", "c", "a", "l", " ", "3", "2", "7", "6", "8">>, << >>),
      VmLine("invalid", <<"c", "a", "l", "l", " ", "f">>, << >>) }

VmLines == ValidLines \cup BlankLines \cup InvalidLines

VmTexts == UNION { [1..n -> VmLines] : n \in 0..MaxLines }

InitVmp ==
    /\ RunIdle
    /\ UnitIdle
    /\ AsmIdle
    /\ TokIdle
    /\ CompIdle
    /\ vfile \in VmTexts
    /\ vlines = [i \in 1..Len(vfile) |-> vfile[i].text]
    /\ vout = << >>
    /\ vstage = "run"

\* One turn of `for command in parser`: Parser::next.
VmParserNext ==
    /\ vstage = "run"
    /\ LET r == ParserNext(vlines)
       IN /\ vlines' = r.lines
          /\ vout' = IF r.command.kind = "Some" THEN Append(vout, r.command.val) ELSE vout
          /\ vstage' = IF r.command.kind = "Some" THEN "run" ELSE "end"
    /\ UNCHANGED vfile

NextVmp == VmParserNext /\ UNCHANGED << runVars, unitVars, asmVars, tokVars, compVars >>

SpecVmp == InitVmp /\ [][NextVmp]_vars

\* ------------------------------------------------------------------ C20

HasInvalidLine == \E i \in 1..Len(vfile) : vfile[i].kind = "invalid"

\* C20: a line that is no valid command aborts the translation: the parser
\* does not come to the end of a file that holds one.
C20_InvalidAborts == HasInvalidLine => vstage # "end"

\* What holds: at the end of the file the parser has yielded, in file order,
\* the command of each valid line, its comment removed, and nothing for the
\* other lines.
C20_OneCommandPerLine ==
    /\ vstage = "end" => vout = Flatten([i \in 1..Len(vfile) |-> vfile[i].expect])
    /\ vstage = "run" =>
         \E k \in 0..Len(vfile) :
             /\ vlines = [i \in 1..(Len(vfile) - k) |-> vfile[k + i].text]
             /\ vout = Flatten([i \in 1..k |-> vfile[i].expect])

\* push constant 7, then push foo 1, then add: the parser ends after two
\* commands, the line between them skipped.
C20_Witness ==
    /\ vstage = "end"
    /\ Len(vfile) = 3
    /\ vfile[1].kind = "valid"
    /\ vfile[2].kind = "invalid"
    /\ vfile[2].text = <<"p", "u", "s", "h", " ", "f", "o", "o", " ", "1">>
    /\ vfile[3].kind = "valid"
    /\ vout = vfile[1].expect \o vfile[3].expect

\* ------------------------------------------------------------------ C21
\* The function a command of the output is in: the name of the latest
\* function command before block j (NoSym when there is none).
EnclosingFunction(j) ==
    LET before == { i \in 1..(j - 1) : blocks[i].cmd.kind = "Function" }
    IN IF before = {} THEN NoSym
       ELSE blocks[CHOOSE i \in before : \A h \in before : h <= i].cmd.name

\* The lines written for block j: those after the j-th comment line, up to
\* the next comment line.
BlockLines(j) ==
    LET comments == { i \in 1..Len(output) : output[i].t = "Comment" }
        from == CHOOSE i \in comments : Cardinality({ h \in comments : h < i }) = j - 1
        later == { i \in comments : i > from }
        to == IF later = {} THEN Len(output)
              ELSE (CHOOSE i \in later : \A h \in later : i <= h) - 1
    IN SubSeq(output, from + 1, to)

\* The symbols the lines of block j define or address, SP apart.
BlockSymbols(j) ==
    LET lines == BlockLines(j)
    IN { lines[a].sym : a \in { b \in 1..Len(lines) : lines[b].t \in {"A", "L"}
                                                        /\ lines[b].sym # S_SP } }

IsBranching(c) == c.kind \in {"Label", "GoTo", "IfGoTo"}

\* The label, goto and if-goto commands translated so far that are in a function.
ScopedBlocks == { j \in 1..Len(blocks) : IsBranching(blocks[j].cmd)
                                          /\ EnclosingFunction(j) # NoSym }

\* The ROM address of label x of the function block j is in.
OwnLabelAddr(j) ==
    blocks[CHOOSE i \in 1..Len(blocks) :
              /\ blocks[i].cmd.kind = "Label"
              /\ blocks[i].cmd.name = blocks[j].cmd.name
              /\ EnclosingFunction(i) = EnclosingFunction(j)].addr

JumpDone == /\ Completed
            /\ LastCmd.kind \in {"GoTo", "IfGoTo"}
            /\ EnclosingFunction(last) # NoSym
            /\ (LastCmd.kind = "IfGoTo" => pre.ram[SPof(pre) - 1] # 0)

\* C21: a label x, goto x or if-goto x after function f k is translated with
\* the assembly symbol f$x, so the same label name in two functions gives two
\* distinct assembly labels, and every goto reaches the label of its own
\* function.
C21_FunctionScopedLabels ==
    /\ \A j \in ScopedBlocks :
          BlockSymbols(j) = { EnclosingFunction(j) \o <<"$">> \o blocks[j].cmd.name }
    /\ \A i, j \in ScopedBlocks :
          (/\ blocks[i].cmd.kind = "Label" /\ blocks[j].cmd.kind = "Label"
           /\ EnclosingFunction(i) # EnclosingFunction(j))
          => BlockSymbols(i) # BlockSymbols(j)
    /\ JumpDone => cpu.pc = OwnLabelAddr(last)

\* What the translator writes: the label name as it is in the command.
C21_RawLabels ==
    (phase = "written") => \A j \in ScopedBlocks : BlockSymbols(j) = { blocks[j].cmd.name }

\* A jump to x in function g has landed on the label x of function f.
C21_Witness ==
    /\ JumpDone
    /\ EnclosingFunction(last) = F_g
    /\ BlockSymbols(last) = { L_x }
    /\ cpu.pc # OwnLabelAddr(last)
    /\ \E i \in ScopedBlocks : /\ blocks[i].cmd = Label(L_x)
                               /\ EnclosingFunction(i) = F_f
                               /\ blocks[i].addr = cpu.pc

\* ------------------------------------------------------------------ C22
\* The RAM cell that holds the base of a segment.
SegmentPointer(seg) ==
    CASE seg = "local" -> 1
      [] seg = "argument" -> 2
      [] seg = "this" -> 3
      [] seg = "that" -> 4

PopSegmentDone == /\ Completed
                  /\ LastCmd.kind = "Pop"
                  /\ LastCmd.seg \in PointedSegments
                  /\ SPof(pre) >= StackBase + 1

\* C22: the code of pop SEG i, SEG one of local, argument, this, that, writes
\* the destination address base[SEG] + i to R13 before it pops the stack, then
\* stores the popped value there: RAM[base + i] = v, SP = SP_old - 1, and apart
\* from SP, R13 and RAM[base + i] no RAM cell, and none of LCL, ARG, THIS,
\* THAT, is changed.  (The log lists the RAM addresses in the order they were
\* written.)
C22_PopSegment ==
    PopSegmentDone =>
       LET S == SPof(pre)
           dst == pre.ram[SegmentPointer(LastCmd.seg)] + LastCmd.n
       IN /\ cpu.log = << 13, 0, dst >>
          /\ cpu.ram[13] = dst
          /\ cpu.ram[dst] = pre.ram[S - 1]
          /\ SPof(cpu) = S - 1
          /\ SameRamExcept({0, 13, dst})
          /\ LCLof(cpu) = LCLof(pre) /\ ARGof(cpu) = ARGof(pre)
          /\ THISof(cpu) = THISof(pre) /\ THATof(cpu) = THATof(pre)

\* pop that 2 of the value -1 with THAT = 278.
C22_Witness ==
    /\ PopSegmentDone
    /\ LastCmd = Pop("that", 2)
    /\ THATof(pre) = 278
    /\ pre.ram[SPof(pre) - 1] = 65535
    /\ cpu.ram[280] = 65535
    /\ pre.ram[280] # 65535
    /\ SPof(cpu) = StackBase + 1

\* ------------------------------------------------------------------ C23
\* The machine has just left the code of a function command (one with code:
\* k > 0).
FunctionDone == Completed /\ LastCmd.kind = "Function"

\* The function commands translated so far.
FunctionBlocks == { j \in 1..Len(blocks) : blocks[j].cmd.kind = "Function" }

\* The writes of k pushes from stack pointer S: the cell, then SP, k times.
RECURSIVE PushWrites(_, _)
PushWrites(S, k) == IF k <= 0 THEN << >> ELSE << S, 0 >> \o PushWrites(S + 1, k - 1)

\* C23: the assembly of function f k defines the label (f) and then pushes 0
\* exactly k times: entered with stack pointer S it ends with SP = S + k and
\* RAM[S..S+k-1] all 0; for k = 0 it is the label alone.
C23_FunctionLocals ==
    /\ phase = "written" =>
          \A j \in FunctionBlocks :
             /\ Head(BlockLines(j)) = LInstr(blocks[j].cmd.name)
             /\ InstrCount(BlockLines(j)) = 5 * blocks[j].cmd.n
             /\ blocks[j].cmd.n = 0 => BlockLines(j) = << LInstr(blocks[j].cmd.name) >>
    /\ FunctionDone =>
          LET S == SPof(pre)
              k == LastCmd.n
          IN /\ SPof(cpu) = S + k
             /\ \A a \in S..(S + k - 1) : cpu.ram[a] = 0
             /\ cpu.log = PushWrites(S, k)
             /\ SameRamExcept({0} \cup (S..(S + k - 1)))

\* function f 2 has cleared two cells that held other values.
C23_Witness ==
    /\ FunctionDone
    /\ LastCmd = Function(F_f, 2)
    /\ pre.ram[SPof(pre)] # 0
    /\ pre.ram[SPof(pre) + 1] # 0
    /\ cpu.ram[SPof(pre)] = 0
    /\ cpu.ram[SPof(pre) + 1] = 0
    /\ SPof(cpu) = SPof(pre) + 2

\* function f 0 has been written: its label and nothing else.
C23_WitnessNoLocals ==
    /\ phase = "written"
    /\ \E j \in FunctionBlocks : /\ blocks[j].cmd = Function(F_f, 0)
                                 /\ BlockLines(j) = << LInstr(F_f) >>
                                 /\ blocks[j + 1].addr = blocks[j].addr

\* ------------------------------------------------------------------ C30
\* The comparison of the command, on signed 16-bit values.
SignedHolds(op, x, y) ==
    CASE op = "eq" -> x = y
      [] op = "gt" -> x > y
      [] op = "lt" -> x < y

\* x - y does not fit in 16 bits.
Overflows(x, y) == x - y > 32767 \/ x - y < -32768

\* C30: for all x and y in -32768..32767, gt leaves -1 exactly when x > y, lt
\* exactly when x < y, eq exactly when x = y, and 0 otherwise, also when
\* x - y wraps modulo 2^16.
C30_SignedComparison ==
    CompareDone =>
       LET S == SPof(pre)
           x == Signed(pre.ram[S - 2])
           y == Signed(pre.ram[S - 1])
       IN cpu.ram[S - 2] = (IF SignedHolds(LastCmd.op, x, y) THEN 65535 ELSE 0)

\* What the code computes agrees with the signed comparison whenever x - y
\* fits in 16 bits, and for eq always.
C30_WithoutOverflow ==
    CompareDone =>
       LET S == SPof(pre)
           x == Signed(pre.ram[S - 2])
           y == Signed(pre.ram[S - 1])
       IN (LastCmd.op = "eq" \/ ~Overflows(x, y))
          => cpu.ram[S - 2] = (IF SignedHolds(LastCmd.op, x, y) THEN 65535 ELSE 0)

\* 32767 gt -1 has left 0.
C30_Witness ==
    /\ CompareDone
    /\ LastCmd.op = "gt"
    /\ pre.ram[SPof(pre) - 2] = 32767
    /\ pre.ram[SPof(pre) - 1] = 65535
    /\ cpu.D = 32768
    /\ cpu.ram[SPof(pre) - 2] = 0

\* ------------------------------------------------ the VM language, executed
\* The VM code the compiler writes is run on a machine of the VM language
\* (spec.md, VM language): a stack, and a memory 0..MemTop that holds the
\* segment pointers (1 LCL, 2 ARG, 3 THIS, 4 THAT), temp (5..12), the static
\* variables (16..) and whatever the pointers point to.  MaxSteps bounds the
\* commands executed.
MemTop == 63
MaxSteps == 90

\* Where a word of a segment is kept.
VmAddress(mem, seg, n) ==
    CASE seg = "local" -> mem[1] + n
      [] seg = "argument" -> mem[2] + n
      [] seg = "this" -> mem[3] + n
      [] seg = "that" -> mem[4] + n
      [] seg = "pointer" -> 3 + n
      [] seg = "temp" -> 5 + n
      [] seg = "static" -> 16 + n

\* m = [pc, stack, mem, st]; st is "run", "end" (past the last command),
\* "returned", or "fault" (a word taken from an empty stack, an address
\* outside the memory, a jump to a label that is not there).
VmStart(mem) == [pc |-> 1, stack |-> << >>, mem |-> mem, st |-> "run"]

VmFault(m) == [m EXCEPT !.st = "fault"]

LabelAt(code, label) ==
    LET at == { i \in 1..Len(code) : code[i].kind = "Label" /\ code[i].name = label }
    IN IF at = {} THEN 0 ELSE CHOOSE i \in at : \A j \in at : i <= j

VmJump(code, m, label, stack) ==
    IF LabelAt(code, label) = 0 THEN VmFault(m)
    ELSE [m EXCEPT !.pc = LabelAt(code, label), !.stack = stack]

VmNext(m, stack) == [m EXCEPT !.pc = @ + 1, !.stack = stack]

\* A call of Math.multiply or Math.divide computes; any other call takes its
\* arguments and leaves 0.
VmCallValue(name, stack) ==
    CASE name = N_Math_multiply -> ToI16(stack[Len(stack) - 1] * stack[Len(stack)])
      [] name = N_Math_divide -> DivI16(stack[Len(stack) - 1], stack[Len(stack)])
      [] OTHER -> 0

VmPush(m, c) ==
    IF c.seg = "constant" THEN VmNext(m, Append(m.stack, c.n))
    ELSE IF VmAddress(m.mem, c.seg, c.n) \in 0..MemTop
    THEN VmNext(m, Append(m.stack, m.mem[VmAddress(m.mem, c.seg, c.n)]))
    ELSE VmFault(m)

VmPop(m, c, top, left) ==
    IF c.seg # "constant" /\ VmAddress(m.mem, c.seg, c.n) \in 0..MemTop
    THEN [m EXCEPT !.pc = @ + 1, !.stack = left,
                   !.mem[VmAddress(m.mem, c.seg, c.n)] = top]
    ELSE VmFault(m)

\* One command.
VmStep(code, m) ==
    LET c == code[m.pc]
        d == Len(m.stack)
        takes == CASE c.kind \in {"Pop", "IfGoTo", "Return"} -> 1
                   [] c.kind = "Arithmetic" -> IF c.op \in {"neg", "not"} THEN 1 ELSE 2
                   [] c.kind = "Call" -> c.n
                   [] OTHER -> 0
        left == SubSeq(m.stack, 1, d - takes)
    IN IF d < takes THEN VmFault(m)
       ELSE CASE c.kind = "Push" -> VmPush(m, c)
              [] c.kind = "Pop" -> VmPop(m, c, m.stack[d], left)
              [] c.kind = "Arithmetic" /\ takes = 1 ->
                   VmNext(m, Append(left, VmUnary(c.op, m.stack[d])))
              [] c.kind = "Arithmetic" /\ takes = 2 ->
                   VmNext(m, Append(left, VmBinary(c.op, m.stack[d - 1], m.stack[d])))
              [] c.kind = "Call" -> VmNext(m, Append(left, VmCallValue(c.name, m.stack)))
              [] c.kind = "Label" -> VmNext(m, m.stack)
              [] c.kind = "GoTo" -> VmJump(code, m, c.name, m.stack)
              [] c.kind = "IfGoTo" ->
                   IF m.stack[d] # 0 THEN VmJump(code, m, c.name, left) ELSE VmNext(m, left)
              [] c.kind = "Return" -> [m EXCEPT !.st = "returned"]
              [] OTHER -> VmFault(m)

\* The machine after at most fuel commands of code.
RECURSIVE VmExec(_, _, _)
VmExec(code, m, fuel) ==
    IF m.st # "run" \/ fuel = 0 THEN m
    ELSE IF m.pc > Len(code) THEN [m EXCEPT !.st = "end"]
    ELSE VmExec(code, VmStep(code, m), fuel - 1)

VmRun(code, mem) == VmExec(code, VmStart(mem), MaxSteps)

\* ------------------------------------------------ Jack statements, executed
\* The memory the method run of StmtClass is entered with: LCL = 20, ARG = 30,
\* THIS = 40; the locals q (an array at 50) and i; the arguments this, a (an
\* array at 56) and b; the fields x = -3, y, p; the static s; the arrays.
JackInput(i, b) ==
    [a \in 0..MemTop |->
       CASE a = 1 -> 20 [] a = 2 -> 30 [] a = 3 -> 40
         [] a = 20 -> 50 [] a = 21 -> i
         [] a = 30 -> 40 [] a = 31 -> 56 [] a = 32 -> b
         [] a = 40 -> -3
         [] a >= 50 /\ a <= 55 -> 100 + a
         [] a >= 56 -> 200 + a
         [] OTHER -> 0]

JackInputs == { JackInput(i, 2) : i \in {0, 1, 5} }

\* The memory but the cells the compiled code uses for itself: THAT and temp.
Visible == (0..MemTop) \ (4..12)

\* Where the variable of that name is kept.
JackAddress(class, dec, mem, name) ==
    VmAddress(mem, SegmentOfKind(Resolution(class, dec, name)[1].kind),
              Resolution(class, dec, name)[1].index)

\* The value of an expression of Jack (operations from left to right).
RECURSIVE JackTerm(_, _, _, _), JackFold(_, _, _, _, _, _)
JackTerm(class, dec, mem, term) ==
    CASE term.t = "IntegerConstant" -> term.n
      [] term.t = "VarName" -> mem[JackAddress(class, dec, mem, term.name)]
      [] term.t = "KeywordConstant" ->
           (CASE term.k = "True" -> -1 [] term.k = "This" -> mem[3] [] OTHER -> 0)
      [] term.t = "WithUnary" ->
           IF term.unary = "Negative" THEN ToI16(-JackTerm(class, dec, mem, term.term))
           ELSE ToI16(-JackTerm(class, dec, mem, term.term) - 1)
      [] term.t = "Expression" ->
           JackFold(class, dec, mem, JackTerm(class, dec, mem, term.expression.term),
                    term.expression.extra_op_terms, 1)
      [] term.t = "IndexVar" ->
           mem[mem[JackAddress(class, dec, mem, term.name)]
               + JackTerm(class, dec, mem, ParenTerm(term.index))]
      [] OTHER -> 0

JackFold(class, dec, mem, value, op_terms, k) ==
    IF k > Len(op_terms) THEN value
    ELSE JackFold(class, dec, mem,
                  OpValue(op_terms[k].op, value, JackTerm(class, dec, mem, op_terms[k].term)),
                  op_terms, k + 1)

JackExpression(class, dec, mem, e) == JackTerm(class, dec, mem, ParenTerm(e))

\* The statements of Jack: [mem, st], st "run", "returned", or "fuel" when a
\* loop has taken more than fuel turns.
Ran(mem, st) == [mem |-> mem, st |-> st]

RECURSIVE JackStatements(_, _, _, _, _), JackStatement(_, _, _, _, _)
JackStatements(class, dec, statements, r, fuel) ==
    IF statements = << >> \/ r.st # "run" THEN r
    ELSE JackStatements(class, dec, Tail(statements),
                        JackStatement(class, dec, Head(statements), r.mem, fuel), fuel)

JackStatement(class, dec, st, mem, fuel) ==
    CASE st.s = "Let" ->
           Ran([mem EXCEPT ![IF st.index_expression = Absent
                             THEN JackAddress(class, dec, mem, st.var_name)
                             ELSE mem[JackAddress(class, dec, mem, st.var_name)]
                                  + JackExpression(class, dec, mem, st.index_expression[1])]
                            = JackExpression(class, dec, mem, st.expression)],
               "run")
      [] st.s = "If" ->
           IF JackExpression(class, dec, mem, st.expression) = -1
           THEN JackStatements(class, dec, st.if_statements, Ran(mem, "run"), fuel)
           ELSE IF st.else_statements # Absent
           THEN JackStatements(class, dec, st.else_statements[1], Ran(mem, "run"), fuel)
           ELSE Ran(mem, "run")
      [] st.s = "While" ->
           IF fuel = 0 THEN Ran(mem, "fuel")
           ELSE IF JackExpression(class, dec, mem, st.expression) = -1
           THEN LET body == JackStatements(class, dec, st.statements, Ran(mem, "run"), fuel)
                IN IF body.st # "run" THEN body
                   ELSE JackStatement(class, dec, st, body.mem, fuel - 1)
           ELSE Ran(mem, "run")
      [] st.s = "Do" -> Ran(mem, "run")
      [] st.s = "Return" -> Ran(mem, "returned")

\* ------------------------------------------------------------------ C24
\* The code of a statement has the layout of the claim, and so have the
\* statements in it.
RECURSIVE ShapedStatements(_, _, _), Shaped(_, _, _)
ShapedStatements(vm, statements, return_type) ==
    statements = << >>
    \/ (/\ Shaped(vm, Head(statements), return_type)
        /\ ShapedStatements(compile_statement(vm, Head(statements), return_type).vm,
                            Tail(statements), return_type))

IfShaped(code, c, t, e) ==
    LET k == Len(c) + 2 + Len(t)
    IN /\ Len(code) = k + 2 + Len(e) + 1
       /\ SubSeq(code, 1, Len(c)) = c
       /\ code[Len(c) + 1] = Arithmetic("not")
       /\ code[Len(c) + 2].kind = "IfGoTo"
       /\ SubSeq(code, Len(c) + 3, k) = t
       /\ code[k + 1].kind = "GoTo"
       /\ code[k + 2] = Label(code[Len(c) + 2].name)
       /\ SubSeq(code, k + 3, k + 2 + Len(e)) = e
       /\ code[Len(code)] = Label(code[k + 1].name)
       /\ code[k + 1].name # code[Len(c) + 2].name

WhileShaped(code, c, b) ==
    LET k == 1 + Len(c) + 2 + Len(b)
    IN /\ Len(code) = k + 2
       /\ code[1].kind = "Label"
       /\ SubSeq(code, 2, Len(c) + 1) = c
       /\ code[Len(c) + 2] = Arithmetic("not")
       /\ code[Len(c) + 3].kind = "IfGoTo"
       /\ SubSeq(code, Len(c) + 4, k) = b
       /\ code[k + 1] = GoTo(code[1].name)
       /\ code[k + 2] = Label(code[Len(c) + 3].name)
       /\ code[1].name # code[k + 2].name

Shaped(vm, st, return_type) ==
    LET inner == Generated(Generated(vm))
    IN CASE st.s = "If" ->
              LET t == compile_statements(inner, st.if_statements, return_type)
                  else_statements == IF st.else_statements = Absent THEN << >>
                                     ELSE st.else_statements[1]
              IN /\ IfShaped(compile_statement(vm, st, return_type).code,
                             compile_expression(vm, st.expression), t.code,
                             compile_statements(t.vm, else_statements, return_type).code)
                 /\ ShapedStatements(inner, st.if_statements, return_type)
                 /\ ShapedStatements(t.vm, else_statements, return_type)
         [] st.s = "While" ->
              /\ WhileShaped(compile_statement(vm, st, return_type).code,
                             compile_expression(vm, st.expression),
                             compile_statements(inner, st.statements, return_type).code)
              /\ ShapedStatements(inner, st.statements, return_type)
         [] OTHER -> TRUE

\* The method of a program of the control-flow family is compiled.
ControlCompiled == jprog.kind = "control" /\ jstage = "subs" /\ jcur = 1

\* The VM the body of the first subroutine is compiled with.
BodyVM ==
    [jvm EXCEPT !.label_generator = LabelGeneratorNew(jclass.name),
                !.subroutine_table = SubroutineTable(jvm, jclass.subroutine_decs[1])]

\* The code of the body of the first subroutine: what follows its head.
BodyCode ==
    SubSeq(jcode, Len(HeadOfSubroutine(jclass, jclass.subroutine_decs[1])) + 1, Len(jcode))

\* C24: if (c) {t} else {e} compiles to code(c), not, if-goto L1, code(t),
\* goto L2, label L1, code(e) when there is an else, label L2; while (c) {b}
\* to label L1, code(c), not, if-goto L2, code(b), goto L1, label L2; run on
\* the VM, the code does what the statements say: t, or one more turn of b,
\* when c is true (-1), and e, or what follows the loop, when c is false (0).
C24_ControlFlow ==
    ControlCompiled =>
       LET dec == jclass.subroutine_decs[1]
       IN /\ BodyCode = compile_statements(BodyVM, dec.body.statements, dec.return_type).code
          /\ ShapedStatements(BodyVM, dec.body.statements, dec.return_type)
          /\ \A mem \in JackInputs :
                LET r == VmRun(BodyCode, mem)
                    ref == JackStatements(jclass, dec, dec.body.statements,
                                          Ran(mem, "run"), MaxSteps)
                IN /\ r.st \in {"run", "end"}
                   /\ r.st = "end" =>
                        /\ r.stack = << >>
                        /\ ref.st = "run"
                        /\ \A a \in Visible : r.mem[a] = ref.mem[a]

\* while (i < b) { if (i = 0) { let x = 7; } else { let y = 8; } let i = i + 1; }
\* entered with i = 0, b = 2 has ended with x = 7, y = 8 and i = 2.
C24_Witness ==
    /\ ControlCompiled
    /\ Len(jclass.subroutine_decs[1].body.statements) = 1
    /\ jclass.subroutine_decs[1].body.statements[1].s = "While"
    /\ Len(jclass.subroutine_decs[1].body.statements[1].statements) = 2
    /\ VmRun(BodyCode, JackInput(0, 2)).st = "end"
    /\ VmRun(BodyCode, JackInput(0, 2)).mem[40] = 7
    /\ VmRun(BodyCode, JackInput(0, 2)).mem[41] = 8
    /\ VmRun(BodyCode, JackInput(0, 2)).mem[21] = 2

\* ------------------------------------------------------------------ C25
\* Number of if and while statements, those inside them included.
RECURSIVE Branchings(_)
Branchings(statements) ==
    IF statements = << >> THEN 0
    ELSE LET st == Head(statements)
         IN (CASE st.s = "If" ->
                    1 + Branchings(st.if_statements)
                    + (IF st.else_statements = Absent THEN 0
                       ELSE Branchings(st.else_statements[1]))
               [] st.s = "While" -> 1 + Branchings(st.statements)
               [] OTHER -> 0)
            + Branchings(Tail(statements))

\* The label requests made while the first n subroutines of the class were
\* compiled: two for each if and while.
Requests(class, n) ==
    LET Sum[i \in 0..n] ==
          IF i = 0 THEN 0
          ELSE Sum[i - 1] + 2 * Branchings(class.subroutine_decs[i].body.statements)
    IN Sum[n]

\* The label names in VM code, and the lines that name a label.
LabelNames(code) ==
    { code[i].name : i \in { j \in 1..Len(code) : IsBranching(code[j]) } }

Naming(code, label, kinds) ==
    { i \in 1..Len(code) : code[i].kind \in kinds /\ code[i].name = label }

\* C25, within a class: the k-th label request gives CLASSNAME_k, and each
\* label is defined once and jumped to from one place, so the two labels of a
\* statement are used by no other statement of the class.
C25_WithinClass ==
    (jstage = "subs" /\ ~Panicked(jcode)) =>
       /\ LabelNames(jcode)
            = { ToUppercase(jclass.name) \o <<"_">> \o FmtNat(k) :
                  k \in 0..(Requests(jclass, jcur) - 1) }
       /\ jvm.label_generator.counter = Requests(jclass, jcur)
       /\ \A label \in LabelNames(jcode) :
             /\ Cardinality(Naming(jcode, label, {"Label"})) = 1
             /\ Cardinality(Naming(jcode, label, {"GoTo", "IfGoTo"})) = 1

\* C25, across classes: a label of the class being compiled is no label of a
\* class compiled before it.
C25_AcrossClasses ==
    jstage = "subs" => LabelNames(jcode) \cap LabelNames(jout) = {}

\* C25: label generation is unique, within a class and across classes.
C25_UniqueLabels == C25_WithinClass /\ C25_AcrossClasses

\* class Main is written with its label MAIN_0, and the class MAIN compiled
\* after it has the label MAIN_0 too.
C25_Witness ==
    /\ jstage = "subs"
    /\ jprog.kind = "labels"
    /\ jprog.class.name = N_Main
    /\ jclass.name = N_MAIN
    /\ jcur = 2
    /\ Label(<<"M", "A", "I", "N", "_", "0">>) \in { jout[i] : i \in 1..Len(jout) }
    /\ Label(<<"M", "A", "I", "N", "_", "0">>) \in { jcode[i] : i \in 1..Len(jcode) }
    /\ Label(<<"M", "A", "I", "N", "_", "5">>) \in { jcode[i] : i \in 1..Len(jcode) }

\* Two methods of one class: the second takes its labels where the first
\* stopped.
C25_WitnessWithin ==
    /\ jstage = "subs"
    /\ jprog.kind = "labels"
    /\ jclass.name = N_Foo
    /\ jcur = 2
    /\ Requests(jclass, 1) = 4
    /\ LabelNames(jcode) = { <<"F", "O", "O", "_">> \o << d >> : d \in {"0", "1", "2", "3", "4", "5"} }

\* ------------------------------------------------------------------ C26
\* The method of a program of the returns family is compiled.
ReturnsCompiled == jprog.kind = "returns" /\ jstage = "subs" /\ jcur = 1

\* The code the claim gives a return statement that has a value to push.
ReturnCode(vm, statement) ==
    (IF statement.expression # Absent
     THEN compile_expression(vm, statement.expression[1])
     ELSE VM_push("constant", 0))
    \o << Return >>

\* A body that ends in a return and has no if or while compiles to the code
\* of what precedes the return, followed by the code of the return.
ReturnShaped(dec) ==
    LET statements == dec.body.statements
        n == Len(statements)
    IN Branchings(statements) = 0 =>
          BodyCode = compile_statements(BodyVM, SubSeq(statements, 1, n - 1),
                                        dec.return_type).code
                     \o ReturnCode(BodyVM, statements[n])

\* Run on the VM, the body reaches a return with exactly one word on the
\* stack.
ReturnsOneWord ==
    \A mem \in JackInputs :
       LET r == VmRun(BodyCode, mem)
       IN r.st = "returned" /\ Len(r.stack) = 1

\* C26: return e; compiles to code(e), return, and return; to push constant
\* 0, return; whatever the return type of the subroutine, the code reaches
\* return with one word pushed for it.
C26_ReturnPushesOne ==
    ReturnsCompiled =>
       /\ ReturnShaped(jclass.subroutine_decs[1])
       /\ ReturnsOneWord

\* A return statement without a value in some statement list.
RECURSIVE BareReturn(_)
BareReturn(statements) ==
    /\ statements # << >>
    /\ LET st == Head(statements)
       IN \/ st.s = "Return" /\ st.expression = Absent
          \/ st.s = "If" /\ BareReturn(st.if_statements)
          \/ st.s = "If" /\ st.else_statements # Absent /\ BareReturn(st.else_statements[1])
          \/ st.s = "While" /\ BareReturn(st.statements)
          \/ BareReturn(Tail(statements))

\* C26, for return e; in any subroutine and return; in a void one.
C26_ValueOrVoid ==
    (/\ ReturnsCompiled
     /\ \/ jclass.subroutine_decs[1].return_type.t = "Void"
        \/ ~BareReturn(jclass.subroutine_decs[1].body.statements))
    => /\ ReturnShaped(jclass.subroutine_decs[1])
       /\ ReturnsOneWord

\* method int run(...) { return; } is compiled to a lone return, which the
\* VM reaches with nothing on the stack.
C26_Witness ==
    /\ ReturnsCompiled
    /\ jclass.subroutine_decs[1].return_type = TyInt
    /\ jclass.subroutine_decs[1].body.statements = << ReturnStatement(Absent) >>
    /\ BodyCode = << Return >>
    /\ VmRun(BodyCode, JackInput(0, 2)).st = "fault"
    /\ VmRun(BodyCode, JackInput(0, 2)).stack = << >>

\* method void run(...) { return; } is compiled to push constant 0, return.
C26_WitnessVoid ==
    /\ ReturnsCompiled
    /\ jclass.subroutine_decs[1].return_type = TyVoid
    /\ jclass.subroutine_decs[1].body.statements = << ReturnStatement(Absent) >>
    /\ BodyCode = VM_push("constant", 0) \o << Return >>
    /\ VmRun(BodyCode, JackInput(0, 2)).st = "returned"
    /\ VmRun(BodyCode, JackInput(0, 2)).stack = << 0 >>

\* ------------------------------------------------------------------ C27
\* The method of a program of the arrays family is compiled.
ArraysCompiled == jprog.kind = "arrays" /\ jstage = "subs" /\ jcur = 1

\* The statement let a[i] = rhs of the program.
ArrayLet == jclass.subroutine_decs[1].body.statements[1]

\* The address a[i] names in the memory mem.
ArrayTarget(mem) ==
    LET dec == jclass.subroutine_decs[1]
    IN mem[JackAddress(jclass, dec, mem, ArrayLet.var_name)]
       + JackExpression(jclass, dec, mem, ArrayLet.index_expression[1])

\* C27: let a[i] = rhs compiles to push a, code(i), add, code(rhs), pop temp
\* 0, pop pointer 1, push temp 0, pop that 0, and run on the VM it stores
\* the value of rhs at (value of a) + (value of i) and changes nothing else
\* of the variables and arrays, also when rhs reads array elements.
C27_ArrayStore ==
    ArraysCompiled =>
       LET dec == jclass.subroutine_decs[1]
           a == Resolution(jclass, dec, ArrayLet.var_name)[1]
       IN /\ BodyCode
               = VM_push(SegmentOfKind(a.kind), a.index)
                 \o compile_expression(BodyVM, ArrayLet.index_expression[1])
                 \o VM_op("add")
                 \o compile_expression(BodyVM, ArrayLet.expression)
                 \o VM_pop("temp", 0) \o VM_pop("pointer", 1)
                 \o VM_push("temp", 0) \o VM_pop("that", 0)
          /\ \A mem \in JackInputs :
                LET r == VmRun(BodyCode, mem)
                IN /\ r.st = "end"
                   /\ r.stack = << >>
                   /\ r.mem[ArrayTarget(mem)] = JackExpression(jclass, dec, mem, ArrayLet.expression)
                   /\ \A c \in Visible \ {ArrayTarget(mem)} : r.mem[c] = mem[c]

\* let q[i] = a[b] with q = 50, i = 1, a = 56, b = 2: the element read is
\* that of address 58, which holds 258, and it is stored at 51; THAT, set to
\* 58 by the read, ends as 51.
C27_Witness ==
    /\ ArraysCompiled
    /\ ArrayLet = LetStatement(N_q, Given(Just(VarTerm(N_i))),
                               Just(IndexTerm(N_a, Just(VarTerm(N_b)))))
    /\ VmRun(BodyCode, JackInput(1, 2)).st = "end"
    /\ VmRun(BodyCode, JackInput(1, 2)).mem[51] = 258
    /\ VmRun(BodyCode, JackInput(1, 2)).mem[58] = 258
    /\ VmRun(BodyCode, JackInput(1, 2)).mem[4] = 51
    /\ VmRun(SubSeq(BodyCode, 1, Len(BodyCode) - 4), JackInput(1, 2)).mem[4] = 58

\* ------------------------------------------------------------------ C28
\* The ASCII code of a character of Printable.
AsciiCode(printable, ch) ==
    31 + (CHOOSE k \in 1..Len(printable) : printable[k] = ch)

\* The code the claim gives a string constant.
Materialised(printable, text) ==
    VM_push("constant", Len(text))
    \o VM_call(N_String_new, 1)
    \o Flatten([k \in 1..Len(text) |->
                  VM_push("constant", AsciiCode(printable, text[k]))
                  \o VM_call(N_String_appendChar, 2)])

\* The string constant of a program of the strings family.
StringText == jprog.class.subroutine_decs[1].body.statements[1].expression.term.text

\* let i = "..." is compiled as the claim says, and compile never panics.
StringCompiled ==
    /\ jstage # "panic"
    /\ (jstage = "subs" /\ jcur = 1) =>
          BodyCode = Materialised(Printable, StringText) \o VM_pop("local", 1)

\* The table gives every character of chars a code, and different
\* characters different codes.
TableTotal(chars) == \A ch \in chars : CharSetDecode(ch).kind = "Some"

TableOneToOne(chars) ==
    LET coded == { ch \in chars : CharSetDecode(ch).kind = "Some" }
    IN Cardinality({ CharSetDecode(ch).val : ch \in coded }) = Cardinality(coded)

PrintableChars == { Printable[k] : k \in 1..Len(Printable) }

\* C28: a string constant of printable characters compiles to push constant
\* n, call String.new 1, and push constant code(c), call String.appendChar 2
\* for each character, code(c) the ASCII code; the table is total on 32..126
\* and one-to-one.
C28_StringConstants ==
    jprog.kind = "strings" =>
       /\ StringCompiled
       /\ TableTotal(PrintableChars)
       /\ TableOneToOne(PrintableChars)

\* C28, but for the slash and the backslash.
C28_ButSlashes ==
    jprog.kind = "strings" =>
       /\ (\A k \in 1..Len(StringText) : StringText[k] \notin {"/", "\\"}) => StringCompiled
       /\ TableTotal(PrintableChars \ {"\\"})
       /\ TableOneToOne(PrintableChars)
       /\ \A ch \in PrintableChars \ {"/", "\\"} :
             CharSetDecode(ch).val = AsciiCode(Printable, ch)

\* let i = "a/b"; is compiled with 92, the code of the backslash, pushed for
\* the slash.
C28_Witness ==
    /\ jprog.kind = "strings"
    /\ StringText = <<"a", "/", "b">>
    /\ jstage = "subs"
    /\ jcur = 1
    /\ BodyCode = VM_push("constant", 3) \o VM_call(N_String_new, 1)
                  \o VM_push("constant", 97) \o VM_call(N_String_appendChar, 2)
                  \o VM_push("constant", 92) \o VM_call(N_String_appendChar, 2)
                  \o VM_push("constant", 98) \o VM_call(N_String_appendChar, 2)
                  \o VM_pop("local", 1)
    /\ AsciiCode(Printable, "/") = 47

\* let i = "1\2"; makes compile panic: the table has no backslash.
C28_WitnessBackslash ==
    /\ jprog.kind = "strings"
    /\ StringText = <<"1", "\\", "2">>
    /\ jstage = "panic"
    /\ CharSetDecode("\\").kind # "Some"

\* let i = "Hi!"; is compiled with 72, 105 and 33.
C28_WitnessPlain ==
    /\ jprog.kind = "strings"
    /\ StringText = <<"H", "i", "!">>
    /\ jstage = "subs"
    /\ jcur = 1
    /\ BodyCode = VM_push("constant", 3) \o VM_call(N_String_new, 1)
                  \o VM_push("constant", 72) \o VM_call(N_String_appendChar, 2)
                  \o VM_push("constant", 105) \o VM_call(N_String_appendChar, 2)
                  \o VM_push("constant", 33) \o VM_call(N_String_appendChar, 2)
                  \o VM_pop("local", 1)

\* ------------------------------------------------------------------ C29
\* No two symbols of the table have the same name.
DistinctNames(table) ==
    \A i, j \in 1..Len(table.symbols) :
       table.symbols[i].var_name = table.symbols[j].var_name => i = j

\* The indices of a kind never decrease along the table.
IndicesNeverDecrease(table) ==
    \A i, j \in 1..Len(table.symbols) :
       (i < j /\ table.symbols[i].kind = table.symbols[j].kind)
          => table.symbols[i].index <= table.symbols[j].index

\* C29: whatever was defined, no two symbols of the class scope, and no two
\* of the subroutine scope, have the same name, and the indices of a kind
\* never decrease.
C29_NoDuplicates ==
    /\ DistinctNames(jvm.class_table)
    /\ DistinctNames(jvm.subroutine_table)
    /\ IndicesNeverDecrease(jvm.class_table)
    /\ IndicesNeverDecrease(jvm.subroutine_table)

\* C29, the indices alone.
C29_Indices ==
    /\ IndicesNeverDecrease(jvm.class_table)
    /\ IndicesNeverDecrease(jvm.subroutine_table)

\* field int x, y; static Foo x; leaves the field x and the static x in the
\* class table, and var int i, i; two locals i; let x = 1 and let i = 2
\* store to the first of each.
C29_Witness ==
    /\ jprog.kind = "duplicates"
    /\ jstage = "subs"
    /\ jcur = 1
    /\ Len(jvm.class_table.symbols) = 3
    /\ jvm.class_table.symbols[1].var_name = N_x
    /\ jvm.class_table.symbols[1].kind = "Field"
    /\ jvm.class_table.symbols[3].var_name = N_x
    /\ jvm.class_table.symbols[3].kind = "Static"
    /\ \E k \in 1..(Len(jvm.subroutine_table.symbols) - 1) :
          /\ jvm.subroutine_table.symbols[k].var_name = N_i
          /\ jvm.subroutine_table.symbols[k].index = 0
          /\ jvm.subroutine_table.symbols[k + 1].var_name = N_i
          /\ jvm.subroutine_table.symbols[k + 1].index = 1
    /\ SubSeq(BodyCode, 1, 4) = VM_push("constant", 1) \o VM_pop("this", 0)
                                \o VM_push("constant", 2) \o VM_pop("local", 0)

====
